---- MODULE Spec2Model ----
(***************************************************************************)
(* ScriptNote: the scene indexer (SceneService.parseDocument), the scene   *)
(* numbering engine and the editor operations that insert and renumber     *)
(* scenes.  A line of text is a sequence of characters, each a string: an  *)
(* ASCII character is itself, any other character is named in ASCII (see   *)
(* CharCode).  A document is a sequence of lines (the editor's lines, and  *)
(* the result of content.split('\n')).                                     *)
(***************************************************************************)
EXTENDS Integers, Sequences, FiniteSets, TLC

VARIABLES doc, index, op, ui, bus, cache, project, state

\* the services that the editor operations do not touch
services == <<bus, cache, project, state>>

vars == <<doc, index, op, ui, services>>

(***************************************************************************)
(* Characters and the regular expressions of utils/constants.ts            *)
(***************************************************************************)

\* \s of the regular expressions, and the characters String.trim() strips
WhiteSpace == {" ", "\t", "IDSP"}

\* \d
Digits == {"0", "1", "2", "3", "4", "5", "6", "7", "8", "9"}

LOCATION_TYPES == {"NEI", "WAI"}

FLASHBACK_START == <<"LB", "SHAN", "HUI", "RB">>

FLASHBACK_END == <<"LB", "SHAN", "HUI", "JIE", "SHU", "RB">>

\* the literal prefix of TAG_REGEX
TAG_PREFIX == <<"LB", "BIAO", "QIAN", "COLON">>

\* A character is written as a string: an ASCII character as itself, any other
\* character by a name ("RI" is 日, "NEI" is 内, "COLON" is the full-width ：,
\* "LB" and "RB" are 【 and 】, "IDSP" is the ideographic space U+3000).
\* CharCode is String.charCodeAt of each: it fixes which character a name is.
CharCode(c) ==
    CASE c = "\n" -> 10 [] c = "\t" -> 9 [] c = " " -> 32 [] c = "#" -> 35 [] c = "-" -> 45
      [] c = ":" -> 58 [] c = "/" -> 47 [] c = "O" -> 79 [] c = "S" -> 83 [] c = "V" -> 86
      [] c = "0" -> 48 [] c = "1" -> 49 [] c = "2" -> 50 [] c = "3" -> 51 [] c = "4" -> 52
      [] c = "5" -> 53 [] c = "6" -> 54 [] c = "7" -> 55 [] c = "8" -> 56 [] c = "9" -> 57
      [] c = "a" -> 97 [] c = "b" -> 98 [] c = "x" -> 120
      [] c = "IDSP" -> 12288 [] c = "LB" -> 12304 [] c = "RB" -> 12305 [] c = "TRI" -> 9651
      [] c = "RI" -> 26085 [] c = "YE" -> 22812 [] c = "YU" -> 38632 [] c = "XUE" -> 38634
      [] c = "NEI" -> 20869 [] c = "WAI" -> 22806 [] c = "REN" -> 20154 [] c = "WU" -> 29289
      [] c = "COLON" -> 65306 [] c = "LP" -> 65288 [] c = "RP" -> 65289
      [] c = "SHAN" -> 38378 [] c = "HUI" -> 22238 [] c = "JIE" -> 32467 [] c = "SHU" -> 26463
      [] c = "BIAO" -> 26631 [] c = "QIAN" -> 31614 [] c = "DI" -> 22320 [] c = "DIAN" -> 28857
      [] c = "JIA" -> 30002 [] c = "YI" -> 20057 [] c = "HAO" -> 22909 [] c = "NI" -> 20320
      [] c = "ZHANG" -> 24352 [] c = "SAN" -> 19977 [] c = "LI" -> 26446 [] c = "SI" -> 22235
      [] c = "ZHAN" -> 31449 [] c = "QI" -> 36215 [] c = "LAI" -> 26469 [] c = "KE" -> 23458
      [] c = "TING" -> 21381 [] c = "XIAO" -> 31505 [] c = "SHI" -> 19990 [] c = "JIE4" -> 30028
      [] c = "DI4" -> 31532 [] c = "JI" -> 38598

Min(S) == CHOOSE m \in S : \A n \in S : m <= n

Max(S) == CHOOSE m \in S : \A n \in S : m >= n

\* the end of the longest run of characters of class cls that starts at s[i]
\* (a greedy cls+ or cls*): the first position at or after i that is past the
\* end of s or holds a character outside cls
RunEnd(s, i, cls) ==
    Min({j \in i..(Len(s) + 1) : j = Len(s) + 1 \/ s[j] \notin cls})

\* the same for the complement class (\S+)
RunEndNot(s, i, cls) ==
    Min({j \in i..(Len(s) + 1) : j = Len(s) + 1 \/ s[j] \in cls})

\* String.prototype.trim
Trim(s) ==
    LET a == RunEnd(s, 1, WhiteSpace)
    IN  IF a > Len(s) THEN <<>>
        ELSE SubSeq(s, a, Max({j \in a..Len(s) : s[j] \notin WhiteSpace}))

DigitValue(c) ==
    CASE c = "0" -> 0 [] c = "1" -> 1 [] c = "2" -> 2 [] c = "3" -> 3 [] c = "4" -> 4
      [] c = "5" -> 5 [] c = "6" -> 6 [] c = "7" -> 7 [] c = "8" -> 8 [] c = "9" -> 9

DigitChar(d) ==
    CASE d = 0 -> "0" [] d = 1 -> "1" [] d = 2 -> "2" [] d = 3 -> "3" [] d = 4 -> "4"
      [] d = 5 -> "5" [] d = 6 -> "6" [] d = 7 -> "7" [] d = 8 -> "8" [] d = 9 -> "9"

\* parseInt(ds, 10) of a non-empty run of decimal digits
RECURSIVE ParseInt(_)
ParseInt(ds) ==
    IF Len(ds) = 0 THEN 0
    ELSE 10 * ParseInt(SubSeq(ds, 1, Len(ds) - 1)) + DigitValue(ds[Len(ds)])

\* `${n}` of a non-negative integer
RECURSIVE NumberToString(_)
NumberToString(n) ==
    IF n < 10 THEN <<DigitChar(n)>>
    ELSE NumberToString(n \div 10) \o <<DigitChar(n % 10)>>

\* SCENE_NUMBER_REGEX = /^(\d+)-(\d+)/ : both digit runs are greedy and nothing
\* follows the second, so each group is the whole run of digits
SCENE_NUMBER_REGEX(s) ==
    LET d1 == RunEnd(s, 1, Digits)
        d2 == RunEnd(s, d1 + 1, Digits)
    IN  IF d1 > 1 /\ d1 <= Len(s) /\ s[d1] = "-" /\ d2 > d1 + 1
        THEN [matched |-> TRUE, g1 |-> SubSeq(s, 1, d1 - 1),
              g2 |-> SubSeq(s, d1 + 1, d2 - 1), len |-> d2 - 1]
        ELSE [matched |-> FALSE, g1 |-> <<>>, g2 |-> <<>>, len |-> 0]

\* SCENE_HEADER_REGEX = /^(\d+)-(\d+)\s+(日|夜|雨夜|雪夜|\S+)\s+(内|外)\s+(.+)$/
\* Every \s+ is followed by a token that starts with a non-space character and
\* group 3 is followed by \s+, so a match takes whole runs: group 3 is the whole
\* run of non-space characters (the alternative \S+ covers the literal ones),
\* group 4 is one character, and group 5 is the rest of the line.  Only when the
\* last \s+ reaches the end of the line does it give its last character back to
\* (.+).  n is the match of ^(\d+)-(\d+) at the start of the line.
HeaderAfterNumber(s, n) ==
    LET w1 == RunEnd(s, n.len + 1, WhiteSpace)
        t1 == RunEndNot(s, w1, WhiteSpace)
        w2 == RunEnd(s, t1, WhiteSpace)
        w3 == RunEnd(s, w2 + 1, WhiteSpace)
        no == [matched |-> FALSE, g1 |-> <<>>, g2 |-> <<>>, g3 |-> <<>>,
               g4 |-> "", g5 |-> <<>>]
    IN  IF ~n.matched \/ w1 = n.len + 1 \/ t1 = w1 \/ w2 = t1 THEN no
        ELSE IF w2 > Len(s) THEN no
        ELSE IF s[w2] \notin LOCATION_TYPES \/ w3 = w2 + 1 THEN no
        ELSE IF w3 <= Len(s)
             THEN [matched |-> TRUE, g1 |-> n.g1, g2 |-> n.g2,
                   g3 |-> SubSeq(s, w1, t1 - 1), g4 |-> s[w2],
                   g5 |-> SubSeq(s, w3, Len(s))]
        ELSE IF w3 - (w2 + 1) >= 2
             THEN [matched |-> TRUE, g1 |-> n.g1, g2 |-> n.g2,
                   g3 |-> SubSeq(s, w1, t1 - 1), g4 |-> s[w2],
                   g5 |-> <<s[Len(s)]>>]
        ELSE no

SCENE_HEADER_REGEX(s) == HeaderAfterNumber(s, SCENE_NUMBER_REGEX(s))

\* CHARACTER_LIST_REGEX = /^人\s+(.+)$/
CHARACTER_LIST_REGEX(s) ==
    LET w == RunEnd(s, 2, WhiteSpace)
    IN  IF Len(s) < 2 THEN [matched |-> FALSE, g1 |-> <<>>]
        ELSE IF s[1] # "REN" \/ w = 2 THEN [matched |-> FALSE, g1 |-> <<>>]
        ELSE IF w <= Len(s) THEN [matched |-> TRUE, g1 |-> SubSeq(s, w, Len(s))]
        ELSE IF w - 2 >= 2 THEN [matched |-> TRUE, g1 |-> <<s[Len(s)]>>]
        ELSE [matched |-> FALSE, g1 |-> <<>>]

\* s.split(/\s+/).filter(name => name.length > 0)
RECURSIVE SplitNames(_)
SplitNames(s) ==
    LET a == RunEnd(s, 1, WhiteSpace)
        b == RunEndNot(s, a, WhiteSpace)
    IN  IF a > Len(s) THEN <<>>
        ELSE <<SubSeq(s, a, b - 1)>> \o SplitNames(SubSeq(s, b, Len(s)))

(***************************************************************************)
(* The parsing functions of SceneService.ts                                *)
(***************************************************************************)

NoHeader ==
    [matched |-> FALSE, episode |-> 0, scene |-> 0, time |-> <<>>,
     locationType |-> "", location |-> <<>>]

\* what parseSceneHeader returns for the match m of SCENE_HEADER_REGEX
SceneHeaderOf(m) ==
    IF ~m.matched THEN NoHeader
    ELSE [matched |-> TRUE, episode |-> ParseInt(m.g1), scene |-> ParseInt(m.g2),
          time |-> m.g3, locationType |-> m.g4, location |-> Trim(m.g5)]

\* parseSceneHeader: matched = FALSE stands for null
parseSceneHeader(line) == SceneHeaderOf(SCENE_HEADER_REGEX(Trim(line)))

\* parseCharacterList: matched = FALSE stands for null
parseCharacterList(line) ==
    IF ~CHARACTER_LIST_REGEX(Trim(line)).matched
    THEN [matched |-> FALSE, names |-> <<>>]
    ELSE [matched |-> TRUE, names |-> SplitNames(CHARACTER_LIST_REGEX(Trim(line)).g1)]

\* does s hold the sequence t at position p
HasAt(s, p, t) ==
    /\ p + Len(t) - 1 <= Len(s)
    /\ \A k \in 1..Len(t) : s[p + k - 1] = t[k]

\* parseSceneTags: the successive matches of /【标签：(.+?)】/g from position i.
\* A match starts at the first p that holds the prefix and has a 】 after at
\* least one more character; the lazy group ends at the first such 】.
RECURSIVE TagsFrom(_, _)
TagsFrom(s, i) ==
    LET closes(p) == {q \in (p + Len(TAG_PREFIX) + 1)..Len(s) : s[q] = "RB"}
        starts == {p \in i..Len(s) : HasAt(s, p, TAG_PREFIX) /\ closes(p) # {}}
    IN  IF starts = {} THEN <<>>
        ELSE LET p == Min(starts)
                 q == Min(closes(p))
             IN  <<SubSeq(s, p + Len(TAG_PREFIX), q - 1)>> \o TagsFrom(s, q + 1)

parseSceneTags(text) == TagsFrom(text, 1)

\* the number of non-whitespace characters of one line
NonSpaceCount(line) == Cardinality({j \in 1..Len(line) : line[j] \notin WhiteSpace})

\* countWords(lines.join('\n')): the newlines between the lines are whitespace
RECURSIVE countWords(_)
countWords(lines) ==
    IF Len(lines) = 0 THEN 0
    ELSE NonSpaceCount(Head(lines)) + countWords(Tail(lines))

\* one step of calculateHash on the 32-bit value (hi * 65536 + lo):
\* hash = ((hash << 5) - hash) + char; hash = hash & hash
HashStep(h, code) ==
    LET l == h[2] * 31 + code
    IN  <<(h[1] * 31 + (l \div 65536)) % 65536, l % 65536>>

\* the loop of calculateHash over content[first..last] (one-based), from
\* the hash value h.  A range of several characters is run as its first half
\* and then, from the value m the first half ends with, its second half: the
\* steps and their order are the loop's, the evaluation stays shallow.
RECURSIVE HashFrom(_, _, _, _)
HashFrom(h, content, first, last) ==
    IF first > last THEN h
    ELSE IF first = last THEN HashStep(h, CharCode(content[first]))
    ELSE CHOOSE r \in {HashFrom(m, content, (first + last) \div 2 + 1, last) :
                         m \in {HashFrom(h, content, first, (first + last) \div 2)}} :
             TRUE

HexDigit(d) ==
    CASE d = 0 -> "0" [] d = 1 -> "1" [] d = 2 -> "2" [] d = 3 -> "3" [] d = 4 -> "4"
      [] d = 5 -> "5" [] d = 6 -> "6" [] d = 7 -> "7" [] d = 8 -> "8" [] d = 9 -> "9"
      [] d = 10 -> "a" [] d = 11 -> "b" [] d = 12 -> "c" [] d = 13 -> "d"
      [] d = 14 -> "e" [] d = 15 -> "f"

\* the hexadecimal digits of hi * 65536 + lo, without leading zeros
RECURSIVE HexOf(_, _)
HexOf(hi, lo) ==
    IF hi = 0 /\ lo < 16 THEN <<HexDigit(lo)>>
    ELSE HexOf(hi \div 16, (hi % 16) * 4096 + (lo \div 16)) \o <<HexDigit(lo % 16)>>

\* Number.prototype.toString(16) of the signed 32-bit integer whose bits are
\* hi * 65536 + lo: a negative value is "-" and the digits of its magnitude
ToString16(h) ==
    IF h[1] < 32768 THEN HexOf(h[1], h[2])
    ELSE <<"-">> \o HexOf((65535 - h[1] + (IF h[2] = 0 THEN 1 ELSE 0)) % 65536,
                          (65536 - h[2]) % 65536)

\* lines.join('\n'): the content the editor returns for its lines
RECURSIVE JoinLines(_)
JoinLines(lines) ==
    IF Len(lines) = 0 THEN <<>>
    ELSE IF Len(lines) = 1 THEN lines[1]
    ELSE lines[1] \o <<"\n">> \o JoinLines(Tail(lines))

\* calculateHash of a content string
HashOf(content) == ToString16(HashFrom(<<0, 0>>, content, 1, Len(content)))

\* calculateHash of the content whose lines are given
calculateHash(lines) == HashOf(JoinLines(lines))

(***************************************************************************)
(* SceneService.parseDocument                                              *)
(***************************************************************************)

\* the local variables of parseDocument before the loop
ScanInit ==
    [scenes |-> <<>>, inFlashback |-> FALSE, currentSceneStartLine |-> -1,
     currentSceneContent |-> <<>>, currentTags |-> <<>>, maxEpisode |-> 0]

\* scenes with wordCount and tags of the last scene set
SetLast(scenes, wc, tags) ==
    [scenes EXCEPT ![Len(scenes)].wordCount = wc, ![Len(scenes)].tags = tags]

\* a mutant of ScanHeader: a header whose (episode, scene) pair is already in
\* the index opens no scene
ScanHeader_SkipRepeated(st, lineIndex, h) ==
    IF \E i \in 1..Len(st.scenes) :
           st.scenes[i].episode = h.episode /\ st.scenes[i].scene = h.scene
    THEN st
    ELSE [st EXCEPT !.scenes = Append(@,
                       [episode |-> h.episode, scene |-> h.scene, line |-> lineIndex,
                        time |-> h.time, locationType |-> h.locationType,
                        location |-> h.location, characters |-> <<>>, tags |-> <<>>,
                        wordCount |-> 0, isFlashback |-> st.inFlashback]),
                    !.currentSceneStartLine = lineIndex,
                    !.currentSceneContent = <<>>,
                    !.currentTags = <<>>,
                    !.maxEpisode = IF h.episode > @ THEN h.episode ELSE @]

\* the branch of the loop body for a line that parsed as a scene header
ScanHeader(st, lineIndex, h) ==
    LET closed == IF st.currentSceneStartLine >= 0 /\ Len(st.scenes) > 0
                  THEN SetLast(st.scenes, countWords(st.currentSceneContent),
                               st.currentTags)
                  ELSE st.scenes
        sceneInfo == [episode |-> h.episode, scene |-> h.scene, line |-> lineIndex,
                      time |-> h.time, locationType |-> h.locationType,
                      location |-> h.location, characters |-> <<>>, tags |-> <<>>,
                      wordCount |-> 0, isFlashback |-> st.inFlashback]
    IN  [st EXCEPT !.scenes = Append(closed, sceneInfo),
                   !.currentSceneStartLine = lineIndex,
                   !.currentSceneContent = <<>>,
                   !.currentTags = <<>>,
                   !.maxEpisode = IF h.episode > @ THEN h.episode ELSE @]

\* a mutant of ScanBody: a character list is appended to the scene's characters
ScanBody_AppendCharacters(st, line) ==
    LET characters == parseCharacterList(Trim(line))
    IN  IF characters.matched
        THEN IF Len(st.scenes) > 0
             THEN [st EXCEPT !.scenes[Len(st.scenes)].characters = @ \o characters.names]
             ELSE st
        ELSE [st EXCEPT !.currentTags = @ \o parseSceneTags(Trim(line)),
                        !.currentSceneContent = Append(@, line)]

\* the branch of the loop body for a line inside a scene that is no header
ScanBody(st, line) ==
    IF parseCharacterList(Trim(line)).matched
    THEN IF Len(st.scenes) > 0
         THEN [st EXCEPT !.scenes[Len(st.scenes)].characters =
                             parseCharacterList(Trim(line)).names]
         ELSE st
    ELSE [st EXCEPT !.currentTags = @ \o parseSceneTags(Trim(line)),
                    !.currentSceneContent = Append(@, line)]

\* the loop body with trimmedLine = line.trim() and
\* parsedHeader = parseSceneHeader(trimmedLine)
ScanTrimmed(st, lineIndex, line, trimmedLine, parsedHeader) ==
    IF trimmedLine = FLASHBACK_START THEN [st EXCEPT !.inFlashback = TRUE]
    ELSE IF trimmedLine = FLASHBACK_END THEN [st EXCEPT !.inFlashback = FALSE]
    ELSE IF parsedHeader.matched THEN ScanHeader(st, lineIndex, parsedHeader)
    ELSE IF st.currentSceneStartLine >= 0 THEN ScanBody(st, line)
    ELSE st

\* a mutant of ScanLine: the markers are compared with the untrimmed line
ScanLine_MarkerUntrimmed(st, lineIndex, line) ==
    ScanTrimmed(st, lineIndex, line, line, parseSceneHeader(Trim(line)))

\* one iteration of the loop over the lines; lineIndex is zero-based
ScanLine(st, lineIndex, line) ==
    ScanTrimmed(st, lineIndex, line, Trim(line), parseSceneHeader(Trim(line)))

\* the loop over the lines first..last (zero-based) from the locals st; a
\* range of several lines is run as its first half and then, from the locals
\* m the first half ends with, its second half
RECURSIVE ScanFrom(_, _, _, _)
ScanFrom(st, lines, first, last) ==
    IF first > last THEN st
    ELSE IF first = last THEN ScanLine(st, first, lines[first + 1])
    ELSE CHOOSE r \in {ScanFrom(m, lines, (first + last) \div 2 + 1, last) :
                         m \in {ScanFrom(st, lines, first, (first + last) \div 2)}} :
             TRUE

\* the handling of the last scene after the loop
ScanLast(st) ==
    IF Len(st.scenes) > 0 /\ Len(st.currentSceneContent) > 0
    THEN [st EXCEPT !.scenes = SetLast(@, countWords(st.currentSceneContent),
                                       st.currentTags)]
    ELSE st

\* the scenes and maxEpisode after the loop and the handling of the last scene
ScanDocument(lines) == ScanLast(ScanFrom(ScanInit, lines, 0, Len(lines) - 1))

\* createEmptyIndex; ref is the identity of the object (lastUpdated, a wall
\* clock reading that no operation reads, is left out)
createEmptyIndex(ref) ==
    [ref |-> ref, scenes |-> <<>>, episodeCount |-> 0, contentHash |-> <<>>]

\* the object literal of the new index, st the locals after the scan
NewIndex(st, lines, ref) ==
    [ref |-> ref, scenes |-> st.scenes, episodeCount |-> st.maxEpisode,
     contentHash |-> calculateHash(lines)]

\* the index parseDocument builds for new content, as a new object ref
BuildIndex(lines, ref) == NewIndex(ScanDocument(lines), lines, ref)

\* this.index = {...}; return this.index
SetIndex(built) == [result |-> built, index |-> built, created |-> 1]

\* a mutant of parseDocument: the shortcut is lost and every call builds
parseDocument_AlwaysBuilds(lines, hasPrevious, previousIndex, thisIndex, ref) ==
    SetIndex(BuildIndex(lines, ref))

\* parseDocument(content, previousIndex) with this.index = thisIndex, on the
\* content whose lines are given; hasPrevious = FALSE stands for an undefined
\* previousIndex, ref is the identity a new object gets.  result is the index
\* returned, index is this.index afterwards, created counts the index objects
\* the call built.
parseDocument(lines, hasPrevious, previousIndex, thisIndex, ref) ==
    IF hasPrevious /\ previousIndex.contentHash = calculateHash(lines)
    THEN [result |-> previousIndex, index |-> thisIndex, created |-> 0]
    ELSE SetIndex(BuildIndex(lines, ref))

(***************************************************************************)
(* The scene numbering engine of SceneService                              *)
(***************************************************************************)

\* The loop of getNextSceneNumber and needsRenumbering over this.index.scenes:
\* prev and next are positions in scenes, 0 stands for null.  From position i
\* with prevScene = prev: a scene at or before the cursor becomes prevScene,
\* the first scene after the cursor becomes nextScene and ends the loop.
RECURSIVE FindPrevNext(_, _, _, _)
FindPrevNext(scenes, cursorLine, i, prev) ==
    IF i > Len(scenes) THEN [prev |-> prev, next |-> 0]
    ELSE IF scenes[i].line <= cursorLine
         THEN FindPrevNext(scenes, cursorLine, i + 1, i)
         ELSE [prev |-> prev, next |-> i]

\* a mutant of getNextSceneNumber: a cursor between two episodes starts the
\* numbering of the following episode
getNextSceneNumber_NextEpisode(scenes, cursorLine) ==
    LET pn == FindPrevNext(scenes, cursorLine, 1, 0)
    IN  IF Len(scenes) = 0 THEN [episode |-> 1, scene |-> 1]
        ELSE IF pn.prev = 0 THEN [episode |-> scenes[1].episode, scene |-> 1]
        ELSE IF pn.next = 0 \/ scenes[pn.prev].episode = scenes[pn.next].episode
             THEN [episode |-> scenes[pn.prev].episode,
                   scene |-> scenes[pn.prev].scene + 1]
        ELSE [episode |-> scenes[pn.next].episode, scene |-> 1]

\* getNextSceneNumber(cursorLine) on this.index.scenes = scenes
getNextSceneNumber(scenes, cursorLine) ==
    LET pn == FindPrevNext(scenes, cursorLine, 1, 0)
    IN  IF Len(scenes) = 0 THEN [episode |-> 1, scene |-> 1]
        ELSE IF pn.prev = 0 THEN [episode |-> scenes[1].episode, scene |-> 1]
        ELSE IF pn.next = 0
             THEN [episode |-> scenes[pn.prev].episode,
                   scene |-> scenes[pn.prev].scene + 1]
        ELSE IF scenes[pn.prev].episode = scenes[pn.next].episode
             THEN [episode |-> scenes[pn.prev].episode,
                   scene |-> scenes[pn.prev].scene + 1]
        ELSE [episode |-> scenes[pn.prev].episode,
              scene |-> scenes[pn.prev].scene + 1]

\* a mutant of needsRenumbering: the test for a first scene numbered 1 is lost
needsRenumbering_AnyFirst(scenes, cursorLine) ==
    LET pn == FindPrevNext(scenes, cursorLine, 1, 0)
    IN  IF Len(scenes) = 0 THEN FALSE
        ELSE IF pn.next = 0 THEN FALSE
        ELSE IF pn.prev # 0 /\ scenes[pn.prev].episode = scenes[pn.next].episode
             THEN TRUE
        ELSE pn.prev = 0

\* needsRenumbering(cursorLine) on this.index.scenes = scenes
needsRenumbering(scenes, cursorLine) ==
    LET pn == FindPrevNext(scenes, cursorLine, 1, 0)
    IN  IF Len(scenes) = 0 THEN FALSE
        ELSE IF pn.next = 0 THEN FALSE
        ELSE IF pn.prev # 0 /\ scenes[pn.prev].episode = scenes[pn.next].episode
             THEN TRUE
        ELSE IF pn.prev = 0 /\ scenes[pn.next].scene = 1 THEN TRUE
        ELSE FALSE

\* a mutant of getScenesToRenumber: the comparison of the scene numbers is lost
getScenesToRenumber_AllAfter(scenes, cursorLine, newSceneNumber) ==
    SelectSeq(scenes, LAMBDA scene :
        scene.episode = newSceneNumber.episode /\ scene.line > cursorLine)

\* getScenesToRenumber(cursorLine, newSceneNumber) on this.index.scenes = scenes
getScenesToRenumber(scenes, cursorLine, newSceneNumber) ==
    SelectSeq(scenes, LAMBDA scene :
        /\ scene.episode = newSceneNumber.episode
        /\ scene.line > cursorLine
        /\ scene.scene >= newSceneNumber.scene)

\* generateSceneHeaderTemplate
\* (mutant of generateSceneHeaderTemplate) location type before the time
generateSceneHeaderTemplate_TypeFirst(sceneNumber, time, locationType, location) ==
    NumberToString(sceneNumber.episode) \o <<"-">> \o NumberToString(sceneNumber.scene)
        \o <<" ">> \o <<locationType>> \o <<" ">> \o time \o <<" ">> \o location

generateSceneHeaderTemplate(sceneNumber, time, locationType, location) ==
    NumberToString(sceneNumber.episode) \o <<"-">> \o NumberToString(sceneNumber.scene)
        \o <<" ">> \o time \o <<" ">> \o <<locationType>> \o <<" ">> \o location

\* generateCharacterListTemplate: '人物：'
generateCharacterListTemplate == <<"REN", "WU", "COLON">>

\* generateSceneContent: `${header}\n${characterList}\n`
generateSceneContent(sceneNumber, time, locationType, location) ==
    generateSceneHeaderTemplate(sceneNumber, time, locationType, location)
        \o <<"\n">> \o generateCharacterListTemplate \o <<"\n">>

\* the default arguments of insertScene and the values handleInsertScene passes
DefaultTime == <<"RI">>

DefaultLocationType == "NEI"

DefaultLocation == <<"DI", "DIAN">>

(***************************************************************************)
(* The editor (Obsidian Editor): its text is a sequence of lines            *)
(***************************************************************************)

\* text.split('\n')
RECURSIVE SplitLines(_)
SplitLines(text) ==
    LET nl == {j \in 1..Len(text) : text[j] = "\n"}
    IN  IF nl = {} THEN <<text>>
        ELSE <<SubSeq(text, 1, Min(nl) - 1)>>
                 \o SplitLines(SubSeq(text, Min(nl) + 1, Len(text)))

\* editor.getLine(n)
getLine(lines, n) == lines[n + 1]

\* editor.replaceRange(text, from, to): the text between the positions from and
\* to (line and ch are zero-based) is replaced by text, which may hold newlines
replaceRange(lines, text, from, to) ==
    LET pre  == SubSeq(lines[from.line + 1], 1, from.ch)
        post == SubSeq(lines[to.line + 1], to.ch + 1, Len(lines[to.line + 1]))
        new  == SplitLines(text)
        mid  == IF Len(new) = 1 THEN <<pre \o new[1] \o post>>
                ELSE <<pre \o new[1]>> \o SubSeq(new, 2, Len(new) - 1)
                         \o <<new[Len(new)] \o post>>
    IN  SubSeq(lines, 1, from.line) \o mid \o SubSeq(lines, to.line + 2, Len(lines))

\* [...scenes].sort((a, b) => b.line - a.line)
RECURSIVE SortByLineDescending(_)
SortByLineDescending(scenes) ==
    IF Len(scenes) = 0 THEN <<>>
    ELSE LET m == Min({i \in 1..Len(scenes) :
                         \A j \in 1..Len(scenes) : scenes[j].line <= scenes[i].line})
         IN  <<scenes[m]>> \o SortByLineDescending(
                 SubSeq(scenes, 1, m - 1) \o SubSeq(scenes, m + 1, Len(scenes)))

\* a mutant of RenumberOne: the new number raises the episode, not the scene
RenumberOne_BumpEpisode(lines, scene, lineOffset) ==
    LET actualLine  == scene.line + lineOffset
        lineContent == getLine(lines, actualLine)
        match       == SCENE_NUMBER_REGEX(lineContent)
        newNumber   == NumberToString(scene.episode + 1) \o <<"-">>
                           \o NumberToString(scene.scene)
    IN  IF match.matched
        THEN replaceRange(lines,
                 newNumber \o SubSeq(lineContent, match.len + 1, Len(lineContent)),
                 [line |-> actualLine, ch |-> 0],
                 [line |-> actualLine, ch |-> Len(lineContent)])
        ELSE lines

\* the body of the loop of renumberScenesInEditor for one scene.  The number
\* the regular expression matched is a prefix of the line, so
\* lineContent.replace(oldNumber, newNumber) replaces that prefix.
RenumberOne(lines, scene, lineOffset) ==
    LET actualLine  == scene.line + lineOffset
        lineContent == getLine(lines, actualLine)
        match       == SCENE_NUMBER_REGEX(lineContent)
        newNumber   == NumberToString(scene.episode) \o <<"-">>
                           \o NumberToString(scene.scene + 1)
    IN  IF match.matched
        THEN replaceRange(lines,
                 newNumber \o SubSeq(lineContent, match.len + 1, Len(lineContent)),
                 [line |-> actualLine, ch |-> 0],
                 [line |-> actualLine, ch |-> Len(lineContent)])
        ELSE lines

RECURSIVE RenumberAll(_, _, _)
RenumberAll(lines, sortedScenes, lineOffset) ==
    IF Len(sortedScenes) = 0 THEN lines
    ELSE RenumberAll(RenumberOne(lines, Head(sortedScenes), lineOffset),
                     Tail(sortedScenes), lineOffset)

\* renumberScenesInEditor: the lines of the editor afterwards
renumberScenesInEditor(lines, scenes, lineOffset) ==
    RenumberAll(lines, SortByLineDescending(scenes), lineOffset)

\* insertScene(editor, sceneNumber, time, locationType, location) with the cursor
\* on cursorLine and this.index.scenes = scenes; given = FALSE stands for an
\* undefined sceneNumber.  The result holds the lines of the editor afterwards
\* and the values the method computed.
insertScene(lines, scenes, cursorLine, given, sceneNumber, time, locationType, location) ==
    LET actualSceneNumber == IF given THEN sceneNumber
                             ELSE getNextSceneNumber(scenes, cursorLine)
        needsRenumber     == needsRenumbering(scenes, cursorLine)
        scenesToRenumber  == IF needsRenumber
                             THEN getScenesToRenumber(scenes, cursorLine,
                                                      actualSceneNumber)
                             ELSE <<>>
        sceneContent      == generateSceneContent(actualSceneNumber, time,
                                                  locationType, location)
        currentLineContent == getLine(lines, cursorLine)
        insertAtNewLine   == Len(Trim(currentLineContent)) > 0
        insertCh          == IF insertAtNewLine THEN Len(currentLineContent) ELSE 0
        prefix            == IF insertAtNewLine THEN <<"\n", "\n">> ELSE <<>>
        insertText        == prefix \o sceneContent
        inserted          == replaceRange(lines, insertText,
                                 [line |-> cursorLine, ch |-> insertCh],
                                 [line |-> cursorLine, ch |-> insertCh])
        insertedLines     == Len(SplitLines(insertText)) - 1
        header            == generateSceneHeaderTemplate(actualSceneNumber, time,
                                                         locationType, location)
    IN  [lines |-> IF Len(scenesToRenumber) > 0
                   THEN renumberScenesInEditor(inserted, scenesToRenumber,
                                               insertedLines)
                   ELSE inserted,
         number |-> actualSceneNumber,
         needs |-> needsRenumber,
         scenes |-> scenesToRenumber,
         insertedLines |-> insertedLines,
         sceneHeaderLine |-> IF insertAtNewLine THEN cursorLine + 2 ELSE cursorLine]

(***************************************************************************)
(* State.  doc is the text of the editor, index is SceneService.index, op   *)
(* records the last operation with its arguments and what it returned, ui   *)
(* is the cursor and focus of the editor and the two popups.                *)
(***************************************************************************)

NoNumber == [episode |-> 0, scene |-> 0]

\* stands for no index object (undefined) in the record of an operation
NoIndex == [ref |-> -1, scenes |-> <<>>, episodeCount |-> 0, contentHash |-> <<>>]

\* the EventBus after construction: handlers is the Map of the Sets of
\* handlers, a Set as the sequence of its entries in insertion order (the order
\* of Set.forEach), an event without a Set outside the domain.  wrapped lists
\* the calls of once() so far: the event, the wrappedHandler that the Set got,
\* the handler that the returned function unsubscribes, and the history of the
\* wrappedHandler (how often it was called, whether emit was called for its
\* event since, whether the returned function was called before that).
NoBus == [handlers |-> [e \in {} |-> <<>>], wrapped |-> <<>>]

\* the statistics cache after construction with the default capacity: cache
\* is the Map as the sequence of its entries in insertion order, recent the
\* keys by their last get-hit or set since the construction or the last
\* clear(), the oldest first
NoCache == [maxSize |-> 100, cache |-> <<>>, recent |-> <<>>]

\* the ProjectService with a loaded project: active says that
\* currentProjectPath is the project (not null), recentLocations is the list
\* of the settings of the project in settingsCache, adds counts the calls of
\* addRecentLocation
NoProject == [active |-> TRUE, recentLocations |-> <<>>, adds |-> 0]

\* the keys of AppState that the listeners of the model subscribe to
StateKeys == {"sceneIndex", "stats"}

\* The StateManager after construction.  sets are the Set objects that
\* subscribe() has created, each the sequence of its listeners in insertion
\* order; listeners is the Map, from a key to the number of its Set, a key
\* without a Set outside the domain; closures are the functions that
\* subscribe() has returned, each with the key, the Set and the listener that
\* it closes over.  subscribed is the history: for each key the listeners
\* that were subscribed and since neither unsubscribed by their own function
\* nor cleared.
NoState ==
    [listeners |-> [k \in {} |-> 0], sets |-> <<>>, closures |-> {},
     subscribed |-> [k \in StateKeys |-> {}]]

ServicesIdle ==
    /\ bus = NoBus
    /\ cache = NoCache
    /\ project = NoProject
    /\ state = NoState

\* the popups before any was shown.  character is the CharacterPopup
\* (container !== null is visible), modifier the TabModifierPopup; view =
\* FALSE stands for this.view = null.  cursor is the head of the selection of
\* the editor, focus whether the editor has the focus.
NoUi ==
    [cursor |-> 0, focus |-> TRUE,
     character |-> [visible |-> FALSE, view |-> FALSE, triggerPos |-> 0,
                    empty |-> FALSE],
     modifier |-> [visible |-> FALSE, view |-> FALSE, triggerPos |-> 0,
                   replaceColon |-> FALSE, selectedIndex |-> 0,
                   inputMode |-> FALSE, inputValue |-> <<>>]]

NoOp ==
    [name |-> "none", cursorLine |-> 0, number |-> NoNumber, needs |-> FALSE,
     scenes |-> <<>>, before |-> <<>>, insertedLines |-> 0, usedPrev |-> FALSE,
     prev |-> NoIndex, result |-> NoIndex,
     created |-> 0, twice |-> FALSE, prevText |-> <<>>,
     prevResult |-> NoIndex,
     line |-> <<>>, valid |-> FALSE, errors |-> <<>>, header |-> NoHeader,
     location |-> <<>>, projectBefore |-> NoProject,
     partial |-> <<>>, notified |-> <<>>, stateBefore |-> NoState,
     key |-> "", value |-> "", found |-> FALSE, cacheBefore |-> NoCache,
     event |-> "", data |-> "", entry |-> [handler |-> "", wrapper |-> 0], calls |-> <<>>, busBefore |-> NoBus,
     input |-> NoHeader, duration |-> 0,
     inserted |-> <<>>, at |-> 0, enabled |-> FALSE, error |-> FALSE,
     uiBefore |-> NoUi,
     kind |-> "", count |-> 0, cursor |-> [line |-> 0, ch |-> 0]]

\* the identity of a newly created index object: one that no index object
\* still referred to has
FreshRef ==
    Min({r \in 0..4 : r \notin {index.ref, op.prev.ref, op.result.ref,
                                 op.prevResult.ref}})

(***************************************************************************)
(* SpecNum: the numbering engine as functions of the index and the cursor.  *)
(* The index is the one parseDocument builds for a document of              *)
(* LastLine + 1 lines with at most MaxNumScenes scene headers.              *)
(***************************************************************************)

\* the zero-based number of the last line of the documents of SpecNum
LastLine == 10

\* the number of scene headers in the documents of SpecNum
MaxNumScenes == 2

\* the scene numbers of the headers of the documents of SpecNum
NumberPairs ==
    {[episode |-> 1, scene |-> 1], [episode |-> 1, scene |-> 2],
     [episode |-> 2, scene |-> 1]}

\* the header insertScene writes for the number n
HeaderLine(n) ==
    generateSceneHeaderTemplate(n, DefaultTime, DefaultLocationType, DefaultLocation)

\* the lines of the documents of SpecNum that may hold a scene header
HeaderPositions == {l \in 0..LastLine : l % 2 = 0}

InitNum ==
    /\ \E S \in SUBSET HeaderPositions :
         /\ Cardinality(S) <= MaxNumScenes
         /\ \E f \in [S -> NumberPairs] :
              doc = [k \in 1..(LastLine + 1) |->
                        IF (k - 1) \in S THEN HeaderLine(f[k - 1]) ELSE <<>>]
    /\ index = BuildIndex(doc, 1)
    /\ op = NoOp
    /\ ui = NoUi
    /\ ServicesIdle

\* the cursor line is the editor's, any line of the document
CursorLines == 0..(Len(doc) - 1)

GetNextSceneNumber(c) ==
    /\ op' = [NoOp EXCEPT !.name = "getNextSceneNumber", !.cursorLine = c,
                          !.number = getNextSceneNumber(index.scenes, c)]
    /\ UNCHANGED <<doc, index>>
    /\ UNCHANGED ui
    /\ UNCHANGED services

NeedsRenumbering(c) ==
    /\ op' = [NoOp EXCEPT !.name = "needsRenumbering", !.cursorLine = c,
                          !.needs = needsRenumbering(index.scenes, c)]
    /\ UNCHANGED <<doc, index>>
    /\ UNCHANGED ui
    /\ UNCHANGED services

GetScenesToRenumber(c, n) ==
    /\ op' = [NoOp EXCEPT !.name = "getScenesToRenumber", !.cursorLine = c,
                          !.number = n,
                          !.scenes = getScenesToRenumber(index.scenes, c, n)]
    /\ UNCHANGED <<doc, index>>
    /\ UNCHANGED ui
    /\ UNCHANGED services

NextNum ==
    \/ \E c \in CursorLines : GetNextSceneNumber(c)
    \/ \E c \in CursorLines : NeedsRenumbering(c)
    \/ \E c \in CursorLines, n \in NumberPairs : GetScenesToRenumber(c, n)

SpecNum == InitNum /\ [][NextNum]_vars

(***************************************************************************)
(* Properties of the numbering engine                                      *)
(***************************************************************************)

\* the positions in scenes of the scenes at or before line c, and after it
AtOrBefore(scenes, c) == {i \in 1..Len(scenes) : scenes[i].line <= c}

After(scenes, c) == {i \in 1..Len(scenes) : scenes[i].line > c}

\* the scenes of an index are in strictly ascending line order
SortedByLine(scenes) ==
    \A i, j \in 1..Len(scenes) : i < j => scenes[i].line < scenes[j].line

\* C1: getNextSceneNumber returns (1,1) on an index without scenes; otherwise,
\* with prev the last scene at or before the cursor and next the first scene
\* after it, (next.episode, 1) when there is no prev and
\* (prev.episode, prev.scene + 1) in every other case; it always returns a number.
C1_NextSceneNumber ==
    op.name = "getNextSceneNumber" =>
        LET scenes == index.scenes
            P == AtOrBefore(scenes, op.cursorLine)
            N == After(scenes, op.cursorLine)
        IN  /\ SortedByLine(scenes)
            /\ op.number.episode >= 1 /\ op.number.scene >= 1
            /\ Len(scenes) = 0 => op.number = [episode |-> 1, scene |-> 1]
            /\ (Len(scenes) > 0 /\ P = {}) =>
                   op.number = [episode |-> scenes[Min(N)].episode, scene |-> 1]
            /\ P # {} =>
                   op.number = [episode |-> scenes[Max(P)].episode,
                                scene |-> scenes[Max(P)].scene + 1]

\* C1 witness: the cursor lies between the last scene of an episode and the
\* first scene of another one
C1_Witness ==
    /\ op.name = "getNextSceneNumber"
    /\ AtOrBefore(index.scenes, op.cursorLine) # {}
    /\ After(index.scenes, op.cursorLine) # {}
    /\ index.scenes[Max(AtOrBefore(index.scenes, op.cursorLine))].episode
         # index.scenes[Min(After(index.scenes, op.cursorLine))].episode

\* C2 as claimed: needsRenumbering is true exactly when the first scene after
\* the cursor exists and lies in the episode of the number getNextSceneNumber
\* computes, or the cursor is before every scene and the first scene is
\* numbered 1.
C2_AsClaimed ==
    op.name = "needsRenumbering" =>
        LET scenes == index.scenes
            P == AtOrBefore(scenes, op.cursorLine)
            N == After(scenes, op.cursorLine)
        IN  op.needs <=>
              \/ /\ N # {}
                 /\ scenes[Min(N)].episode
                      = getNextSceneNumber(scenes, op.cursorLine).episode
              \/ /\ P = {} /\ N # {}
                 /\ scenes[1].scene = 1

\* C2 amended: needsRenumbering is true exactly when the first scene after the
\* cursor exists and either a scene at or before the cursor exists and the last
\* such scene lies in the same episode, or no scene lies at or before the cursor
\* and that first scene is numbered 1; false otherwise (empty index, cursor
\* after all scenes, cursor before a first scene not numbered 1).
C2_NeedsRenumbering ==
    op.name = "needsRenumbering" =>
        LET scenes == index.scenes
            P == AtOrBefore(scenes, op.cursorLine)
            N == After(scenes, op.cursorLine)
        IN  op.needs <=>
              /\ N # {}
              /\ \/ P # {} /\ scenes[Max(P)].episode = scenes[Min(N)].episode
                 \/ P = {} /\ scenes[Min(N)].scene = 1

\* C2 witness: the cursor is before a first scene that is not numbered 1 and
\* needsRenumbering returned false
C2_Witness ==
    /\ op.name = "needsRenumbering"
    /\ AtOrBefore(index.scenes, op.cursorLine) = {}
    /\ After(index.scenes, op.cursorLine) # {}
    /\ index.scenes[1].scene # 1
    /\ ~op.needs

\* the index of the example: scenes (1,1) at line 0 and (1,2) at line 10
MiddleInsertionIndex ==
    /\ Len(index.scenes) = 2
    /\ index.scenes[1].episode = 1 /\ index.scenes[1].scene = 1
    /\ index.scenes[1].line = 0
    /\ index.scenes[2].episode = 1 /\ index.scenes[2].scene = 2
    /\ index.scenes[2].line = 10

\* C5: getScenesToRenumber returns, in line order, exactly the scenes of the
\* index in the episode of the new number that lie after the cursor and are
\* numbered at least the new scene number; on scenes (1,1) at line 0 and (1,2)
\* at line 10 with the cursor on line 5 the computed number is (1,2),
\* needsRenumbering is true and the result is exactly the scene at line 10.
C5_ScenesToRenumber ==
    /\ op.name = "getScenesToRenumber" =>
         /\ SortedByLine(op.scenes)
         /\ {op.scenes[i] : i \in 1..Len(op.scenes)}
              = {s \in {index.scenes[i] : i \in 1..Len(index.scenes)} :
                    /\ s.episode = op.number.episode
                    /\ s.line > op.cursorLine
                    /\ s.scene >= op.number.scene}
    /\ (MiddleInsertionIndex /\ op.cursorLine = 5) =>
         /\ op.name = "getNextSceneNumber" =>
              op.number = [episode |-> 1, scene |-> 2]
         /\ op.name = "needsRenumbering" => op.needs
         /\ (op.name = "getScenesToRenumber"
               /\ op.number = [episode |-> 1, scene |-> 2]) =>
              op.scenes = <<index.scenes[2]>>

\* C5 witness: the example, with the one scene at line 10 returned
C5_Witness ==
    /\ MiddleInsertionIndex
    /\ op.name = "getScenesToRenumber"
    /\ op.cursorLine = 5
    /\ op.number = [episode |-> 1, scene |-> 2]
    /\ Len(op.scenes) = 1
    /\ op.scenes[1].line = 10

(***************************************************************************)
(* Spec: the editor commands of the plugin on a document                   *)
(***************************************************************************)

\* the number of lines of the documents the editor starts with, and the
\* number of lines up to which a scene is inserted
MaxLines == 3

\* the lines the documents of Spec are written with: scene headers, a scene
\* header that starts with a space, a header without location, an empty line,
\* a line of spaces and a dialogue line
EditorLines ==
    {HeaderLine([episode |-> 1, scene |-> 1]),
     HeaderLine([episode |-> 1, scene |-> 2]),
     HeaderLine([episode |-> 2, scene |-> 1]),
     <<" ">> \o HeaderLine([episode |-> 1, scene |-> 2]),
     <<"1", "-", "2", " ", "RI">>,
     <<>>,
     <<" ", " ">>,
     <<"JIA", "COLON", "HAO">>}

\* the sequences of 1..n elements of S
SeqsUpTo(S, n) == UNION {[1..k -> S] : k \in 1..n}

Init ==
    /\ doc \in SeqsUpTo(EditorLines, MaxLines)
    /\ index = createEmptyIndex(0)
    /\ op = NoOp
    /\ ui = NoUi
    /\ ServicesIdle

\* updateSceneIndex (main.ts) with a markdown view open: parseDocument(content)
\* without a previous index, which builds a new index
UpdateSceneIndex ==
    /\ \E r \in {parseDocument(doc, FALSE, index, index, FreshRef)} :
           /\ index' = r.index
           /\ op' = [NoOp EXCEPT !.name = "updateSceneIndex", !.before = doc,
                                 !.result = r.result, !.created = r.created]
    /\ UNCHANGED doc
    /\ UNCHANGED ui
    /\ UNCHANGED services

\* handleInsertScene (main.ts) with an editor open and the cursor on line c:
\* updateSceneIndex, then insertScene(editor, undefined, '日', '内', '地点')
HandleInsertScene(c) ==
    /\ Len(doc) <= MaxLines
    /\ \E idx \in {parseDocument(doc, FALSE, index, index, FreshRef).index} :
       \E r \in {insertScene(doc, idx.scenes, c, FALSE, NoNumber, DefaultTime,
                              DefaultLocationType, DefaultLocation)} :
           /\ index' = idx
           /\ doc' = r.lines
           /\ op' = [NoOp EXCEPT !.name = "handleInsertScene", !.cursorLine = c,
                                 !.number = r.number, !.needs = r.needs,
                                 !.scenes = r.scenes, !.before = doc,
                                 !.insertedLines = r.insertedLines,
                                 !.result = idx, !.created = 1]
    /\ UNCHANGED ui
    /\ UNCHANGED services

Next ==
    \/ UpdateSceneIndex
    \/ \E c \in CursorLines : HandleInsertScene(c)

Spec == Init /\ [][Next]_vars

(***************************************************************************)
(* Properties of insertScene                                               *)
(***************************************************************************)

\* the scenes parseDocument finds in a text
ScenesOf(lines) == ScanDocument(lines).scenes

\* the place after handleInsertScene of the line that was line k before it:
\* lines above the cursor stay, a cursor line with text stays (the scene is
\* inserted after it), all other lines move down by the inserted lines
MovedTo(k) ==
    IF k < op.cursorLine \/ (k = op.cursorLine /\ Len(Trim(op.before[k + 1])) > 0)
    THEN k
    ELSE k + op.insertedLines

\* the line handleInsertScene wrote the new scene header to: two lines below a
\* cursor line with text, the cursor line itself otherwise
InsertedHeaderLine ==
    IF Len(Trim(op.before[op.cursorLine + 1])) > 0
    THEN op.cursorLine + 2
    ELSE op.cursorLine

\* each episode's scenes form one block
Contiguous(scenes) ==
    \A i, j, k \in 1..Len(scenes) :
        (i < j /\ j < k /\ scenes[i].episode = scenes[k].episode)
            => scenes[j].episode = scenes[i].episode

\* each episode's scenes are numbered 1..N in line order
NumberedInOrder(scenes) ==
    \A i \in 1..Len(scenes) :
        scenes[i].scene
          = Cardinality({j \in 1..i : scenes[j].episode = scenes[i].episode})

\* no (episode, scene) pair occurs twice
UniqueNumbers(scenes) ==
    \A i, j \in 1..Len(scenes) :
        (scenes[i].episode = scenes[j].episode /\ scenes[i].scene = scenes[j].scene)
            => i = j

\* C3: from a document whose episodes are contiguous blocks numbered 1..N in
\* line order, handleInsertScene at any cursor line leaves a document whose
\* index again numbers every episode 1..N in line order, without a repeated
\* (episode, scene) pair.
C3_DenseAfterInsert ==
    (/\ op.name = "handleInsertScene"
     /\ Contiguous(ScenesOf(op.before))
     /\ NumberedInOrder(ScenesOf(op.before)))
        => /\ NumberedInOrder(ScenesOf(doc))
           /\ UniqueNumbers(ScenesOf(doc))

\* the text of a line after its scene number (the whole line when it has none)
AfterNumber(line) ==
    SubSeq(line, SCENE_NUMBER_REGEX(Trim(line)).len + 1, Len(Trim(line)))

\* the line that was line k is the same text afterwards
LineKept(k) == doc[MovedTo(k) + 1] = op.before[k + 1]

\* the lines of the scenes insertScene set out to renumber
RenumberedLines == {op.scenes[i].line : i \in 1..Len(op.scenes)}

\* C4: when insertScene renumbers, the header line of every scene of
\* getScenesToRenumber, at its old line plus the inserted lines, carries the
\* same episode and the old scene number plus 1, the rest of the line is
\* unchanged, and no other line that existed before is altered; also for a
\* header line that starts with whitespace.
C4_RenumberByOne ==
    op.name = "handleInsertScene" =>
        /\ \A i \in 1..Len(op.scenes) :
             LET s == op.scenes[i]
                 h == parseSceneHeader(doc[MovedTo(s.line) + 1])
             IN  /\ h.matched
                 /\ h.episode = s.episode
                 /\ h.scene = s.scene + 1
                 /\ AfterNumber(Trim(doc[MovedTo(s.line) + 1]))
                      = AfterNumber(Trim(op.before[s.line + 1]))
        /\ \A k \in 0..(Len(op.before) - 1) : k \notin RenumberedLines => LineKept(k)

\* C6: with the cursor between the last scene of an episode E and the first
\* scene of a different episode, the new scene is numbered (E, last + 1),
\* needsRenumbering is false and no line that existed before changes; and no
\* insertion changes the episode of an existing header line.
C6_EpisodesUntouched ==
    op.name = "handleInsertScene" =>
        LET scenes == op.result.scenes
            P == AtOrBefore(scenes, op.cursorLine)
            N == After(scenes, op.cursorLine)
        IN  /\ (/\ P # {} /\ N # {}
                /\ scenes[Max(P)].episode # scenes[Min(N)].episode)
                   => /\ op.number = [episode |-> scenes[Max(P)].episode,
                                      scene |-> scenes[Max(P)].scene + 1]
                      /\ doc[InsertedHeaderLine + 1] = HeaderLine(op.number)
                      /\ ~op.needs
                      /\ \A k \in 0..(Len(op.before) - 1) : LineKept(k)
            /\ \A i \in 1..Len(scenes) :
                 LET h == parseSceneHeader(doc[MovedTo(scenes[i].line) + 1])
                 IN  h.matched /\ h.episode = scenes[i].episode

\* C6 witness: an insertion between two episodes, and one that renumbered
C6_Witness ==
    /\ op.name = "handleInsertScene"
    /\ AtOrBefore(op.result.scenes, op.cursorLine) # {}
    /\ After(op.result.scenes, op.cursorLine) # {}
    /\ op.result.scenes[Max(AtOrBefore(op.result.scenes, op.cursorLine))].episode
         # op.result.scenes[Min(After(op.result.scenes, op.cursorLine))].episode
    /\ ~op.needs

\* an insertion that renumbered a scene and rewrote its header line
C6_WitnessRenumbered ==
    /\ op.name = "handleInsertScene"
    /\ Len(op.scenes) > 0
    /\ \E i \in 1..Len(op.scenes) : ~LineKept(op.scenes[i].line)

(***************************************************************************)
(* SpecParse: parseDocument and reset on the text of a document             *)
(***************************************************************************)

\* the number of lines of the documents of SpecParse
MaxParseLines == 3

\* the lines the documents of SpecParse are written with: two scene headers,
\* the flashback markers (the end marker after a space), two character lists
\* (the second with two spaces after 人) and a dialogue line
ParseLines ==
    {HeaderLine([episode |-> 1, scene |-> 1]),
     HeaderLine([episode |-> 2, scene |-> 1]),
     FLASHBACK_START,
     <<" ">> \o FLASHBACK_END,
     <<"REN", " ", "JIA", " ", "YI">>,
     <<"REN", " ", " ", "YI">>,
     <<"JIA", "COLON", "HAO">>}

InitParse ==
    /\ doc \in SeqsUpTo(ParseLines, MaxParseLines)
    /\ index = createEmptyIndex(0)
    /\ op = NoOp
    /\ ui = NoUi
    /\ ServicesIdle

\* a call parseDocument(content) or parseDocument(content, getIndex()) with
\* the content of the editor
ParseDocument(usePrevious) ==
    /\ \E r \in {parseDocument(doc, usePrevious, index, index, FreshRef)} :
           /\ index' = r.index
           /\ op' = [NoOp EXCEPT !.name = "parseDocument", !.before = doc,
                                 !.usedPrev = usePrevious,
                                 !.prev = IF usePrevious THEN index ELSE NoIndex,
                                 !.result = r.result, !.created = r.created,
                                 !.twice = (op.name = "parseDocument"),
                                 !.prevText = op.before,
                                 !.prevResult = op.result]
    /\ UNCHANGED doc
    /\ UNCHANGED ui
    /\ UNCHANGED services

\* reset
Reset ==
    /\ index' = createEmptyIndex(FreshRef)
    /\ op' = [NoOp EXCEPT !.name = "reset", !.created = 1]
    /\ UNCHANGED doc
    /\ UNCHANGED ui
    /\ UNCHANGED services

NextParse ==
    \/ \E usePrevious \in BOOLEAN : ParseDocument(usePrevious)
    \/ Reset

SpecParse == InitParse /\ [][NextParse]_vars

(***************************************************************************)
(* Properties of parseDocument                                             *)
(***************************************************************************)

\* the zero-based numbers of the lines of a text that parse as a scene header
HeaderLines(lines) ==
    {k \in 0..(Len(lines) - 1) : parseSceneHeader(lines[k + 1]).matched}

\* C7 as claimed: no two scenes of an index parseDocument returns share an
\* (episode, scene) pair.
C7_AsClaimed ==
    op.name = "parseDocument" => UniqueNumbers(op.result.scenes)

\* C7 amended: an index parseDocument builds holds one scene for each line of
\* the text that parses as a scene header, in ascending line order, with the
\* episode and scene number of that line; scenes never share a line, and they
\* share an (episode, scene) pair exactly when two header lines of the text
\* carry that pair.
C7_OneScenePerHeader ==
    (op.name = "parseDocument" /\ op.created = 1) =>
        LET scenes == op.result.scenes
        IN  /\ SortedByLine(scenes)
            /\ {scenes[i].line : i \in 1..Len(scenes)} = HeaderLines(op.before)
            /\ \A i \in 1..Len(scenes) :
                 LET h == parseSceneHeader(op.before[scenes[i].line + 1])
                 IN  scenes[i].episode = h.episode /\ scenes[i].scene = h.scene
            /\ UniqueNumbers(scenes) <=>
                 \A k, l \in HeaderLines(op.before) :
                     (/\ parseSceneHeader(op.before[k + 1]).episode
                           = parseSceneHeader(op.before[l + 1]).episode
                      /\ parseSceneHeader(op.before[k + 1]).scene
                           = parseSceneHeader(op.before[l + 1]).scene) => k = l

\* C7 witness: an index built from a text with the same header twice
C7_Witness ==
    /\ op.name = "parseDocument" /\ op.created = 1
    /\ Len(op.result.scenes) >= 2
    /\ ~UniqueNumbers(op.result.scenes)

\* C8: parseDocument called twice on the same text returns indexes with equal
\* scenes and equal contentHash; parseDocument(text, previous) returns the very
\* object previous, builds nothing and leaves this.index alone, whenever
\* previous.contentHash is the hash of text.
C8_IdempotentAndMemoized ==
    op.name = "parseDocument" =>
        /\ (op.twice /\ op.prevText = op.before) =>
               /\ op.result.scenes = op.prevResult.scenes
               /\ op.result.contentHash = op.prevResult.contentHash
        /\ (op.usedPrev /\ op.prev.contentHash = calculateHash(op.before)) =>
               /\ op.result = op.prev
               /\ op.created = 0
               /\ index = op.prev
        /\ op.created = 1 =>
               /\ op.result.ref \notin {op.prev.ref, op.prevResult.ref}
               /\ op.result.contentHash = calculateHash(op.before)

\* C8 witness: a second call on the same text, with the index of the first
\* call as previous, returned that object
C8_Witness ==
    /\ op.name = "parseDocument" /\ op.twice /\ op.prevText = op.before
    /\ op.usedPrev /\ op.created = 0
    /\ op.result.ref = op.prevResult.ref
    /\ Len(op.result.scenes) > 0

\* C8 witness of the first half: a second call without previous built a new
\* object with the same scenes
C8_WitnessRebuilt ==
    /\ op.name = "parseDocument" /\ op.twice /\ op.prevText = op.before
    /\ ~op.usedPrev /\ op.created = 1
    /\ op.result.ref # op.prevResult.ref
    /\ Len(op.result.scenes) > 0

\* the lines of a text that are a flashback marker
MarkerLines(lines) ==
    {k \in 0..(Len(lines) - 1) :
        Trim(lines[k + 1]) \in {FLASHBACK_START, FLASHBACK_END}}

\* the lines of the body of the scene whose header is line k: those after k and
\* before the next line that parses as a scene header
BodyLines(lines, k) ==
    {b \in (k + 1)..(Len(lines) - 1) :
        \A j \in (k + 1)..b : j \notin HeaderLines(lines)}

\* the lines of a text that are a character list: 人, whitespace and at least
\* one more character
CharacterListLines(lines) ==
    {k \in 0..(Len(lines) - 1) :
        LET s == Trim(lines[k + 1])
        IN  Len(s) >= 3 /\ s[1] = "REN" /\ s[2] \in WhiteSpace}

\* the sum of f over the finite set S of integers
RECURSIVE SumOver(_, _)
SumOver(S, f) ==
    IF S = {} THEN 0
    ELSE LET x == Min(S) IN f[x] + SumOver(S \ {x}, f)

\* C9: a scene is a flashback scene exactly when the nearest flashback marker
\* line above its header is the start marker; a marker line opens no scene and
\* its characters are not counted in any scene body.
C9_FlashbackAtHeader ==
    (op.name = "parseDocument" /\ op.created = 1) =>
        LET lines == op.before
            scenes == op.result.scenes
        IN  \A i \in 1..Len(scenes) :
              LET above == {k \in MarkerLines(lines) : k < scenes[i].line}
                  body == BodyLines(lines, scenes[i].line)
                            \ (MarkerLines(lines) \cup CharacterListLines(lines))
              IN  /\ scenes[i].isFlashback <=>
                        (above # {} /\ Trim(lines[Max(above) + 1]) = FLASHBACK_START)
                  /\ scenes[i].line \notin MarkerLines(lines)
                  /\ scenes[i].wordCount
                       = SumOver(body, [k \in body |-> NonSpaceCount(lines[k + 1])])

\* C9 witness: a scene after a start marker and an end marker that is no
\* flashback scene, and a flashback scene with a marker line in its body
C9_Witness ==
    /\ op.name = "parseDocument" /\ op.created = 1
    /\ \E i \in 1..Len(op.result.scenes) :
         LET s == op.result.scenes[i]
         IN  \/ /\ ~s.isFlashback
                /\ \E k \in MarkerLines(op.before) : k < s.line
             \/ /\ s.isFlashback
                /\ BodyLines(op.before, s.line) \cap MarkerLines(op.before) # {}

\* the whitespace-separated names of a character-list line, in written order:
\* the words of the trimmed line after its first character 人
NamesOf(line) ==
    LET s == Trim(line)
        starts == {p \in 2..Len(s) : s[p] \notin WhiteSpace /\ s[p - 1] \in WhiteSpace}
        word(p) == SubSeq(s, p, Min({q \in p..Len(s) :
                                        q = Len(s) \/ s[q + 1] \in WhiteSpace}))
        RECURSIVE list(_)
        list(S) == IF S = {} THEN <<>>
                   ELSE <<word(Min(S))>> \o list(S \ {Min(S)})
    IN  list(starts)

\* C10: the characters of a scene are the names of the last character-list
\* line between its header and the next header, in written order, and empty
\* when there is none; a character-list line before the first header is in no
\* scene.
C10_CharactersFromLastList ==
    (op.name = "parseDocument" /\ op.created = 1) =>
        LET lines == op.before
            scenes == op.result.scenes
        IN  \A i \in 1..Len(scenes) :
              LET lists == BodyLines(lines, scenes[i].line)
                             \cap CharacterListLines(lines)
              IN  scenes[i].characters
                    = IF lists = {} THEN <<>> ELSE NamesOf(lines[Max(lists) + 1])

\* C10 witness: a scene with two character-list lines of different names
C10_Witness ==
    /\ op.name = "parseDocument" /\ op.created = 1
    /\ \E i \in 1..Len(op.result.scenes) :
         LET lists == BodyLines(op.before, op.result.scenes[i].line)
                        \cap CharacterListLines(op.before)
         IN  /\ Cardinality(lists) >= 2
             /\ NamesOf(op.before[Min(lists) + 1]) # NamesOf(op.before[Max(lists) + 1])
             /\ op.result.scenes[i].characters = NamesOf(op.before[Max(lists) + 1])

\* a character-list line before the first header, and a scene without characters
C10_WitnessBeforeFirstHeader ==
    /\ op.name = "parseDocument" /\ op.created = 1
    /\ Len(op.result.scenes) > 0
    /\ \E k \in CharacterListLines(op.before) : k < op.result.scenes[1].line
    /\ op.result.scenes[1].characters = <<>>

(***************************************************************************)
(* StatsService: the content word count and the duration estimate          *)
(***************************************************************************)

\* . of the regular expressions matches every character but a line terminator
NoLineBreak(s) == \A k \in 1..Len(s) : s[k] # "\n"

\* does s start with the sequence t (String.startsWith)
StartsWith(s, t) == HasAt(s, 1, t)

\* DIALOGUE_REGEX = /^(.+?)（(.+?)）：(.+)$/ : the positions <<i, j>> of a （ and
\* of a ） that is followed by ：, with a character before the （, one between
\* the two and one after the ：
DialogueSplits(s) ==
    {p \in (2..Len(s)) \X (4..Len(s)) :
        /\ s[p[1]] = "LP"
        /\ p[2] >= p[1] + 2
        /\ s[p[2]] = "RP"
        /\ p[2] + 2 <= Len(s)
        /\ s[p[2] + 1] = "COLON"}

\* the split the two lazy groups take: the first （ that has a match, and for
\* it the first ）：
FirstSplit(P) ==
    CHOOSE p \in P : \A q \in P : p[1] < q[1] \/ (p[1] = q[1] /\ p[2] <= q[2])

\* the groups of DIALOGUE_REGEX for the split p
DialogueGroups(s, p) ==
    [matched |-> TRUE, g1 |-> SubSeq(s, 1, p[1] - 1),
     g2 |-> SubSeq(s, p[1] + 1, p[2] - 1), g3 |-> SubSeq(s, p[2] + 2, Len(s))]

DIALOGUE_REGEX(s) ==
    IF NoLineBreak(s) /\ DialogueSplits(s) # {}
    THEN DialogueGroups(s, FirstSplit(DialogueSplits(s)))
    ELSE [matched |-> FALSE, g1 |-> <<>>, g2 |-> <<>>, g3 |-> <<>>]

\* SIMPLE_DIALOGUE_REGEX = /^(.+?)：(.+)$/ : the positions of a ： with a
\* character before it and one after it
ColonSplits(s) == {i \in 2..(Len(s) - 1) : s[i] = "COLON"}

SIMPLE_DIALOGUE_REGEX(s) ==
    IF NoLineBreak(s) /\ ColonSplits(s) # {}
    THEN [matched |-> TRUE, g1 |-> SubSeq(s, 1, Min(ColonSplits(s)) - 1),
          g2 |-> SubSeq(s, Min(ColonSplits(s)) + 1, Len(s))]
    ELSE [matched |-> FALSE, g1 |-> <<>>, g2 |-> <<>>]

\* ACTION_REGEX = /^△\s*(.*)$/ : the group may be empty, so \s* keeps its
\* whole run and the group is what follows it
ACTION_REGEX(s) ==
    IF Len(s) >= 1 /\ s[1] = "TRI" /\ NoLineBreak(s)
    THEN [matched |-> TRUE, g1 |-> SubSeq(s, RunEnd(s, 2, WhiteSpace), Len(s))]
    ELSE [matched |-> FALSE, g1 |-> <<>>]

\* StatsService.countWords: 0 for an empty text, else the length of the text
\* without whitespace
StatsCountWords(text) == IF Len(text) = 0 THEN 0 ELSE NonSpaceCount(text)

\* (mutant of ContentWordsOfTrimmed) the action marker is tried before the
\* dialogue patterns
ContentWordsOfTrimmed_ActionFirst(trimmedLine) ==
    IF Len(trimmedLine) = 0 THEN 0
    ELSE IF SCENE_NUMBER_REGEX(trimmedLine).matched THEN 0
    ELSE IF StartsWith(trimmedLine, <<"REN", " ">>) THEN 0
    ELSE IF trimmedLine = FLASHBACK_START \/ trimmedLine = FLASHBACK_END THEN 0
    ELSE IF StartsWith(trimmedLine, TAG_PREFIX) THEN 0
    ELSE IF trimmedLine = <<"-", "-", "-">> THEN 0
    ELSE IF StartsWith(trimmedLine, <<"#">>) THEN 0
    ELSE IF ACTION_REGEX(trimmedLine).matched
         THEN StatsCountWords(ACTION_REGEX(trimmedLine).g1)
    ELSE IF DIALOGUE_REGEX(trimmedLine).matched
         THEN StatsCountWords(DIALOGUE_REGEX(trimmedLine).g3)
    ELSE IF SIMPLE_DIALOGUE_REGEX(trimmedLine).matched
         THEN StatsCountWords(SIMPLE_DIALOGUE_REGEX(trimmedLine).g2)
    ELSE StatsCountWords(trimmedLine)

\* the body of the loop of countContentWords for one line: what the line adds
\* to totalWords, trimmedLine = line.trim()
ContentWordsOfTrimmed(trimmedLine) ==
    IF Len(trimmedLine) = 0 THEN 0
    ELSE IF SCENE_NUMBER_REGEX(trimmedLine).matched THEN 0
    ELSE IF StartsWith(trimmedLine, <<"REN", " ">>) THEN 0
    ELSE IF trimmedLine = FLASHBACK_START \/ trimmedLine = FLASHBACK_END THEN 0
    ELSE IF StartsWith(trimmedLine, TAG_PREFIX) THEN 0
    ELSE IF trimmedLine = <<"-", "-", "-">> THEN 0
    ELSE IF StartsWith(trimmedLine, <<"#">>) THEN 0
    ELSE IF DIALOGUE_REGEX(trimmedLine).matched
         THEN StatsCountWords(DIALOGUE_REGEX(trimmedLine).g3)
    ELSE IF SIMPLE_DIALOGUE_REGEX(trimmedLine).matched
         THEN StatsCountWords(SIMPLE_DIALOGUE_REGEX(trimmedLine).g2)
    ELSE IF ACTION_REGEX(trimmedLine).matched
         THEN StatsCountWords(ACTION_REGEX(trimmedLine).g1)
    ELSE StatsCountWords(trimmedLine)

ContentWordsOfLine(line) == ContentWordsOfTrimmed(Trim(line))

\* the loop of countContentWords over the lines of the text
RECURSIVE ContentWordsFrom(_, _)
ContentWordsFrom(lines, i) ==
    IF i > Len(lines) THEN 0
    ELSE ContentWordsOfLine(lines[i]) + ContentWordsFrom(lines, i + 1)

\* countContentWords(text), lines = text.split('\n'): an empty text is 0, and
\* so is the one empty line it splits into
countContentWords(lines) == ContentWordsFrom(lines, 1)

(***************************************************************************)
(* Properties of the word counts                                           *)
(***************************************************************************)

\* the lines of a text between the header on line k and the next header
BodyText(lines, k) ==
    IF BodyLines(lines, k) = {} THEN <<>>
    ELSE SubSeq(lines, k + 2, Max(BodyLines(lines, k)) + 1)

\* C11: the wordCount of every scene of a parsed index equals
\* countContentWords of the lines between its header and the next header.
C11_WordCountIsContentWords ==
    (op.name = "parseDocument" /\ op.created = 1) =>
        \A i \in 1..Len(op.result.scenes) :
            op.result.scenes[i].wordCount
                = countContentWords(BodyText(op.before, op.result.scenes[i].line))

(***************************************************************************)
(* validateSceneHeader.  An error is [position, message]; the messages are  *)
(* named: "empty" 场景头不能为空, "no number" 缺少有效的场景编号,                 *)
(* "nothing after number" 缺少时间、内外景和地点信息, "no time" 缺少时间信息,      *)
(* "no location type" 缺少内外景信息, "bad location type" 内外景必须是"内"或"外",  *)
(* "no location" 缺少地点信息, "bad format" 场景头格式不正确.                    *)
(***************************************************************************)

ValidationError(position, message) == [position |-> position, message |-> message]

\* parts[0]?.length || 0
FirstPartLength(parts) == IF Len(parts) >= 1 THEN Len(parts[1]) ELSE 0

\* the check of the time: the error it pushes, if any
TimeErrors(parts, numberEndPos) ==
    IF Len(parts) < 1 \/ Len(parts[1]) = 0
    THEN <<ValidationError(numberEndPos, "no time")>>
    ELSE <<>>

\* the check of the location type
LocationTypeErrors(parts, numberEndPos) ==
    IF Len(parts) < 2
    THEN <<ValidationError(numberEndPos + FirstPartLength(parts) + 1,
                           "no location type")>>
    ELSE IF ~(Len(parts[2]) = 1 /\ parts[2][1] \in LOCATION_TYPES)
    THEN <<ValidationError(numberEndPos + FirstPartLength(parts) + 1,
                           "bad location type")>>
    ELSE <<>>

\* the check of the location
LocationErrors(parts, trimmedLine) ==
    IF Len(parts) < 3
    THEN <<ValidationError(Len(trimmedLine), "no location")>>
    ELSE <<>>

\* an end of validateSceneHeader without the match of the whole line
ValidateFull_SkipsFormat(trimmedLine, errors) ==
    IF Len(errors) > 0 THEN [valid |-> FALSE, errors |-> errors]
    ELSE [valid |-> TRUE, errors |-> <<>>]

\* the end of validateSceneHeader, errors being those of the three checks
ValidateFull(trimmedLine, errors) ==
    IF Len(errors) > 0 THEN [valid |-> FALSE, errors |-> errors]
    ELSE IF ~SCENE_HEADER_REGEX(trimmedLine).matched
    THEN [valid |-> FALSE, errors |-> <<ValidationError(0, "bad format")>>]
    ELSE [valid |-> TRUE, errors |-> <<>>]

\* (mutant of ValidateParts) the first failing check ends the validation
ValidateParts_FirstErrorOnly(trimmedLine, numberEndPos, parts) ==
    ValidateFull(trimmedLine,
                 IF Len(TimeErrors(parts, numberEndPos)) > 0
                 THEN TimeErrors(parts, numberEndPos)
                 ELSE IF Len(LocationTypeErrors(parts, numberEndPos)) > 0
                 THEN LocationTypeErrors(parts, numberEndPos)
                 ELSE LocationErrors(parts, trimmedLine))

\* validateSceneHeader from the split of afterNumber on
ValidateParts(trimmedLine, numberEndPos, parts) ==
    ValidateFull(trimmedLine,
                 TimeErrors(parts, numberEndPos)
                     \o LocationTypeErrors(parts, numberEndPos)
                     \o LocationErrors(parts, trimmedLine))

\* validateSceneHeader after the number matched; afterNumber is trimmed, so
\* split(/\s+/) gives its runs of non-whitespace characters
ValidateAfterNumber(trimmedLine, numberEndPos, afterNumber) ==
    IF Len(afterNumber) = 0
    THEN [valid |-> FALSE,
          errors |-> <<ValidationError(numberEndPos, "nothing after number")>>]
    ELSE ValidateParts(trimmedLine, numberEndPos, SplitNames(afterNumber))

\* validateSceneHeader of a trimmed line
ValidateTrimmed(trimmedLine) ==
    IF Len(trimmedLine) = 0
    THEN [valid |-> FALSE, errors |-> <<ValidationError(0, "empty")>>]
    ELSE IF ~SCENE_NUMBER_REGEX(trimmedLine).matched
    THEN [valid |-> FALSE, errors |-> <<ValidationError(0, "no number")>>]
    ELSE ValidateAfterNumber(trimmedLine, SCENE_NUMBER_REGEX(trimmedLine).len,
             Trim(SubSeq(trimmedLine, SCENE_NUMBER_REGEX(trimmedLine).len + 1,
                         Len(trimmedLine))))

validateSceneHeader(line) == ValidateTrimmed(Trim(line))

(***************************************************************************)
(* Specification of validateSceneHeader: the editor holds one line, made   *)
(* of an optional scene number and up to MaxParts words.                   *)
(***************************************************************************)

MaxParts == 3

HeaderWords == {<<"RI">>, <<"NEI">>, <<"WAI">>, <<"DI", "DIAN">>}

NumberPrefixes ==
    {<<>>, <<"3", "-", "2">>, <<"3", "-", "2", " ">>,
     <<" ", "1", "2", "-", "3", " ", " ">>}

RECURSIVE JoinWords(_)
\* the words of a sequence, one space between two of them
JoinWords(words) ==
    IF Len(words) = 0 THEN <<>>
    ELSE IF Len(words) = 1 THEN words[1]
    ELSE words[1] \o <<" ">> \o JoinWords(Tail(words))

ValidateLines ==
    {prefix \o JoinWords(words) :
        prefix \in NumberPrefixes,
        words \in {<<>>} \cup SeqsUpTo(HeaderWords, MaxParts)}

InitValidate ==
    /\ doc \in {<<line>> : line \in ValidateLines}
    /\ index = createEmptyIndex(0)
    /\ op = NoOp
    /\ ui = NoUi
    /\ ServicesIdle

\* a call validateSceneHeader(line) with the line of the editor
ValidateSceneHeader ==
    /\ \E r \in {validateSceneHeader(doc[1])} :
           op' = [NoOp EXCEPT !.name = "validateSceneHeader", !.line = doc[1],
                              !.valid = r.valid, !.errors = r.errors]
    /\ UNCHANGED <<doc, index>>
    /\ UNCHANGED ui
    /\ UNCHANGED services

NextValidate == ValidateSceneHeader

SpecValidate == InitValidate /\ [][NextValidate]_vars

\* the messages of the errors of the last validation
Messages == {op.errors[i].message : i \in 1..Len(op.errors)}

\* the line validated is a scene number and nothing else
BareNumber ==
    /\ op.name = "validateSceneHeader"
    /\ SCENE_NUMBER_REGEX(Trim(op.line)).matched
    /\ SCENE_NUMBER_REGEX(Trim(op.line)).len = Len(Trim(op.line))

\* C12 as claimed: the validation of a line that is only a scene number is
\* invalid and has an error for the missing time, one for the missing location
\* type and one for the missing location.
C12_BareNumberThreeErrors ==
    BareNumber =>
        /\ ~op.valid
        /\ "no time" \in Messages
        /\ "no location type" \in Messages
        /\ "no location" \in Messages

\* the line validated starts, after trimming, with a scene number
NumberPresent ==
    /\ op.name = "validateSceneHeader"
    /\ SCENE_NUMBER_REGEX(Trim(op.line)).matched

\* the words that follow the scene number of the line validated
WordsAfterNumber ==
    SplitNames(SubSeq(Trim(op.line), SCENE_NUMBER_REGEX(Trim(op.line)).len + 1,
                      Len(Trim(op.line))))

\* C12: when the line starts with a scene number, a line with nothing after the
\* number gets exactly one error, the one that says time, location type and
\* location are all missing, at the end of the number; a line with words after
\* the number gets, in one result, an error for each check that fails: the
\* location type (second word missing, or not one of the two legal ones) and
\* the location (third word missing); a result with errors is not valid.
C12_LaterStagesReported ==
    NumberPresent =>
        IF Len(WordsAfterNumber) = 0
        THEN /\ ~op.valid
             /\ op.errors = <<ValidationError(SCENE_NUMBER_REGEX(Trim(op.line)).len,
                                              "nothing after number")>>
        ELSE /\ Messages \subseteq {"no location type", "bad location type",
                                    "no location", "bad format"}
             /\ "no location type" \in Messages <=> Len(WordsAfterNumber) < 2
             /\ "bad location type" \in Messages
                    <=> /\ Len(WordsAfterNumber) >= 2
                        /\ WordsAfterNumber[2] \notin {<<"NEI">>, <<"WAI">>}
             /\ "no location" \in Messages <=> Len(WordsAfterNumber) < 3
             /\ Len(op.errors) = Cardinality(Messages)
             /\ op.valid <=> Messages = {}

\* a validation that reported two failing checks in one result
C12_Witness ==
    /\ NumberPresent
    /\ Len(op.errors) = 2
    /\ {"bad location type", "no location"} = Messages

(***************************************************************************)
(* Specification of the header round trip: a header is formatted by        *)
(* generateSceneHeaderTemplate and the line is parsed by parseSceneHeader. *)
(***************************************************************************)

MaxHeaderNumber == 11

HeaderTimes ==
    {<<"RI">>, <<"x", "y">>, <<"NEI">>, <<"RI", " ", "x">>, <<>>}

HeaderLocations ==
    {<<"DI", "DIAN">>, <<"DI", " ", "NEI", " ", "DIAN">>, <<" ", "DI">>,
     <<"DI", " ">>, <<"IDSP", "DI">>, <<" ">>, <<>>, <<"1", "-", "1">>}

HeaderInputs ==
    {[matched |-> TRUE, episode |-> e, scene |-> s, time |-> t,
      locationType |-> k, location |-> l] :
        e \in 1..MaxHeaderNumber, s \in 1..MaxHeaderNumber, t \in HeaderTimes,
        k \in LOCATION_TYPES, l \in HeaderLocations}

InitHeader ==
    /\ doc = <<>>
    /\ index = createEmptyIndex(0)
    /\ op \in {[NoOp EXCEPT !.input = h] : h \in HeaderInputs}
    /\ ui = NoUi
    /\ ServicesIdle

\* generateSceneHeaderTemplate of the header, the line put in the editor, and
\* parseSceneHeader of that line
RoundTrip ==
    /\ \E line \in {generateSceneHeaderTemplate(
                        [episode |-> op.input.episode, scene |-> op.input.scene],
                        op.input.time, op.input.locationType,
                        op.input.location)} :
           /\ doc' = <<line>>
           /\ op' = [NoOp EXCEPT !.name = "roundTrip", !.input = op.input,
                                 !.line = line,
                                 !.header = parseSceneHeader(line)]
    /\ UNCHANGED index
    /\ UNCHANGED ui
    /\ UNCHANGED services

NextHeader == RoundTrip

SpecHeader == InitHeader /\ [][NextHeader]_vars

\* C13 as claimed: a header with episode >= 1, scene >= 1, a time (here even
\* a single word), a location type of the two and a location without line
\* break is parsed back, field for field, from its template.
C13_AsClaimed ==
    (/\ op.name = "roundTrip"
     /\ op.input.episode >= 1 /\ op.input.scene >= 1
     /\ Len(op.input.time) > 0
     /\ \A k \in 1..Len(op.input.time) : op.input.time[k] \notin WhiteSpace
     /\ op.input.locationType \in LOCATION_TYPES
     /\ NoLineBreak(op.input.location))
        => op.header = op.input

\* C13: a header with episode >= 1, scene >= 1, a time that is one non-empty
\* word without whitespace, a location type of the two and a non-empty
\* location that neither starts nor ends with whitespace and has no line break
\* is parsed back, field for field, from its template.
C13_RoundTrip ==
    (/\ op.name = "roundTrip"
     /\ op.input.episode >= 1 /\ op.input.scene >= 1
     /\ Len(op.input.time) > 0
     /\ \A k \in 1..Len(op.input.time) : op.input.time[k] \notin WhiteSpace
     /\ op.input.locationType \in LOCATION_TYPES
     /\ Len(op.input.location) > 0
     /\ op.input.location[1] \notin WhiteSpace
     /\ op.input.location[Len(op.input.location)] \notin WhiteSpace
     /\ NoLineBreak(op.input.location))
        => op.header = op.input

\* a round trip of a header with two-digit numbers and a location of several
\* words, parsed back
C13_Witness ==
    /\ op.name = "roundTrip"
    /\ op.input.episode >= 10 /\ op.input.scene >= 10
    /\ op.input.time = <<"x", "y">>
    /\ op.input.location = <<"DI", " ", "NEI", " ", "DIAN">>
    /\ op.header.matched
    /\ op.header = op.input

(***************************************************************************)
(* getLineType of the Word exporter                                        *)
(***************************************************************************)

\* /^#\s*第.+集/ : # , whitespace, 第, at least one character, and a 集
\* somewhere after it
EPISODE_HEADER_REGEX(s) ==
    /\ Len(s) >= 1 /\ s[1] = "#"
    /\ RunEnd(s, 2, WhiteSpace) <= Len(s)
    /\ s[RunEnd(s, 2, WhiteSpace)] = "DI4"
    /\ \E q \in (RunEnd(s, 2, WhiteSpace) + 2)..Len(s) :
           /\ s[q] = "JI"
           /\ NoLineBreak(SubSeq(s, RunEnd(s, 2, WhiteSpace) + 1, q - 1))

\* /^人物[：:]/
CHARACTER_LINE_REGEX(s) ==
    Len(s) >= 3 /\ s[1] = "REN" /\ s[2] = "WU" /\ s[3] \in {"COLON", ":"}

\* the values of enum LineType
LineType ==
    {"SceneHeader", "CharacterList", "Dialogue", "SimpleDialogue", "Action",
     "FlashbackStart", "FlashbackEnd", "EpisodeHeader", "Empty", "Other"}

\* (mutant of LineTypeOfTrimmed) the dialogue patterns are tried before the
\* action marker
LineTypeOfTrimmed_DialogueFirst(trimmed) ==
    IF Len(trimmed) = 0 THEN "Empty"
    ELSE IF trimmed = FLASHBACK_START THEN "FlashbackStart"
    ELSE IF trimmed = FLASHBACK_END THEN "FlashbackEnd"
    ELSE IF EPISODE_HEADER_REGEX(trimmed) THEN "EpisodeHeader"
    ELSE IF SCENE_HEADER_REGEX(trimmed).matched THEN "SceneHeader"
    ELSE IF CHARACTER_LINE_REGEX(trimmed) THEN "CharacterList"
    ELSE IF CHARACTER_LIST_REGEX(trimmed).matched THEN "CharacterList"
    ELSE IF DIALOGUE_REGEX(trimmed).matched THEN "Dialogue"
    ELSE IF SIMPLE_DIALOGUE_REGEX(trimmed).matched THEN "SimpleDialogue"
    ELSE IF ACTION_REGEX(trimmed).matched THEN "Action"
    ELSE "Other"

\* getLineType after line.trim()
LineTypeOfTrimmed(trimmed) ==
    IF Len(trimmed) = 0 THEN "Empty"
    ELSE IF trimmed = FLASHBACK_START THEN "FlashbackStart"
    ELSE IF trimmed = FLASHBACK_END THEN "FlashbackEnd"
    ELSE IF EPISODE_HEADER_REGEX(trimmed) THEN "EpisodeHeader"
    ELSE IF SCENE_HEADER_REGEX(trimmed).matched THEN "SceneHeader"
    ELSE IF CHARACTER_LINE_REGEX(trimmed) THEN "CharacterList"
    ELSE IF CHARACTER_LIST_REGEX(trimmed).matched THEN "CharacterList"
    ELSE IF ACTION_REGEX(trimmed).matched THEN "Action"
    ELSE IF DIALOGUE_REGEX(trimmed).matched THEN "Dialogue"
    ELSE IF SIMPLE_DIALOGUE_REGEX(trimmed).matched THEN "SimpleDialogue"
    ELSE "Other"

getLineType(line) == LineTypeOfTrimmed(Trim(line))

(***************************************************************************)
(* Specification of the functions of one line: the editor holds one line,  *)
(* put together from a start, a speaker, a colon and a text.               *)
(***************************************************************************)

LineStarts ==
    {<<>>, <<" ">>, <<"TRI">>, <<"TRI", " ">>, <<"#", " ", "DI4", "1", "JI">>,
     <<"#", "DI4", "JI">>, <<"REN", "WU">>, <<"REN", " ">>, <<"REN", "IDSP">>,
     <<"1", "-", "1", " ", "RI", " ", "NEI", " ", "DI">>, <<"1", "-", "1">>,
     <<"LB", "BIAO", "QIAN", "COLON", "x", "RB">>}

LineSpeakers ==
    {<<>>, <<"ZHANG", "SAN">>, <<"ZHANG", "SAN", "LP", "XIAO", "RP">>,
     <<"LP", "XIAO", "RP">>}

LineColons == {<<>>, <<"COLON">>, <<":">>}

LineTexts == {<<>>, <<"NI", "HAO">>, <<"NI", " ", "HAO", " ">>}

OneLines ==
    {a \o b \o c \o d :
        a \in LineStarts, b \in LineSpeakers, c \in LineColons, d \in LineTexts}
    \cup {FLASHBACK_START, FLASHBACK_END, <<" ">> \o FLASHBACK_END \o <<" ">>,
          <<"-", "-", "-">>, <<"ZHANG", "SAN", "LP", "XIAO", "RP", "COLON", "NI", "HAO">>}

InitLine ==
    /\ doc \in {<<line>> : line \in OneLines}
    /\ index = createEmptyIndex(0)
    /\ op = NoOp
    /\ ui = NoUi
    /\ ServicesIdle

\* a call getLineType(line) with the line of the editor
GetLineType ==
    /\ op' = [NoOp EXCEPT !.name = "getLineType", !.line = doc[1],
                          !.kind = getLineType(doc[1])]
    /\ UNCHANGED <<doc, index>>
    /\ UNCHANGED ui
    /\ UNCHANGED services

NextLine == GetLineType

SpecLine == InitLine /\ [][NextLine]_vars

\* the rules of the line classifier in their order, as conditions on the
\* trimmed line
LineRule(i, t) ==
    CASE i = 1 -> Len(t) = 0
      [] i = 2 -> t = FLASHBACK_START \/ t = FLASHBACK_END
      [] i = 3 -> EPISODE_HEADER_REGEX(t)
      [] i = 4 -> parseSceneHeader(t).matched
      [] i = 5 -> CHARACTER_LINE_REGEX(t) \/ parseCharacterList(t).matched
      [] i = 6 -> Len(t) > 0 /\ t[1] = "TRI"
      [] i = 7 -> DIALOGUE_REGEX(t).matched
      [] i = 8 -> SIMPLE_DIALOGUE_REGEX(t).matched
      [] OTHER -> TRUE

\* the kind each rule gives
LineRuleKind(i, t) ==
    CASE i = 1 -> "Empty"
      [] i = 2 -> IF t = FLASHBACK_START THEN "FlashbackStart" ELSE "FlashbackEnd"
      [] i = 3 -> "EpisodeHeader"
      [] i = 4 -> "SceneHeader"
      [] i = 5 -> "CharacterList"
      [] i = 6 -> "Action"
      [] i = 7 -> "Dialogue"
      [] i = 8 -> "SimpleDialogue"
      [] OTHER -> "Other"

MaxWordLines == 2

WordLines ==
    {<<>>, <<" ", "IDSP">>,
     <<"1", "-", "1", " ", "x">>,
     <<"REN", " ", "ZHANG", "SAN", " ", "LI", "SI">>,
     <<" ", "REN", " ", "x">>,
     <<"REN", "ZHANG", "SAN">>,
     FLASHBACK_START,
     FLASHBACK_END \o <<"x">>,
     TAG_PREFIX \o <<"x", "RB", "a">>,
     <<"-", "-", "-">>,
     <<"-", "-", "-", "-">>,
     <<"#", " ", "x">>,
     <<"ZHANG", "SAN", "LP", "XIAO", "RP", "COLON", "NI", "HAO", "SHI", "JIE4">>,
     <<"ZHANG", "SAN", "COLON", "NI", " ", "HAO">>,
     <<"LP", "XIAO", "RP", "COLON", "HAO">>,
     <<"TRI", " ", "LI", "SI", "COLON", "LAI">>,
     <<"TRI", " ", "ZHAN", " ", "QI", "LAI">>,
     <<"NI", "HAO", "COLON">>}

InitWords ==
    /\ doc \in SeqsUpTo(WordLines, MaxWordLines)
    /\ index = createEmptyIndex(0)
    /\ op = NoOp
    /\ ui = NoUi
    /\ ServicesIdle

\* a call countContentWords(text) with the text of the editor
CountContentWords ==
    /\ op' = [NoOp EXCEPT !.name = "countContentWords", !.before = doc,
                          !.count = countContentWords(doc)]
    /\ UNCHANGED <<doc, index>>
    /\ UNCHANGED ui
    /\ UNCHANGED services

NextWords == CountContentWords

SpecWords == InitWords /\ [][NextWords]_vars

\* the rules of the content word count in their order, as conditions on the
\* trimmed line t
WordRule(i, t) ==
    CASE i = 1 -> Len(t) = 0
      [] i = 2 -> SCENE_NUMBER_REGEX(t).matched
      [] i = 3 -> Len(t) >= 2 /\ t[1] = "REN" /\ t[2] = " "
      [] i = 4 -> t = FLASHBACK_START \/ t = FLASHBACK_END
      [] i = 5 -> Len(t) >= 4 /\ SubSeq(t, 1, 4) = <<"LB", "BIAO", "QIAN", "COLON">>
      [] i = 6 -> t = <<"-", "-", "-">>
      [] i = 7 -> Len(t) >= 1 /\ t[1] = "#"
      [] i = 8 -> DIALOGUE_REGEX(t).matched
      [] i = 9 -> SIMPLE_DIALOGUE_REGEX(t).matched
      [] i = 10 -> Len(t) >= 1 /\ t[1] = "TRI"
      [] OTHER -> TRUE

\* what a line adds under each rule: nothing under the first seven, then the
\* non-whitespace characters of the dialogue text, of the text after the
\* colon, of the text after the action marker, of the whole line
WordRuleCount(i, t) ==
    CASE i \in 1..7 -> 0
      [] i = 8 -> NonSpaceCount(DIALOGUE_REGEX(t).g3)
      [] i = 9 -> NonSpaceCount(SubSeq(t, Min(ColonSplits(t)) + 1, Len(t)))
      [] i = 10 -> NonSpaceCount(Tail(t))
      [] OTHER -> NonSpaceCount(t)

\* the contribution of a line by the first rule that matches
LineContribution(line) ==
    WordRuleCount(Min({i \in 1..11 : WordRule(i, Trim(line))}), Trim(line))

WORDS_PER_MINUTE == 200

\* Math.ceil(a / b) for integers a >= 0 and b > 0
Ceil(a, b) == (a + b - 1) \div b

\* (mutant of estimateDuration) rounds down to the half-minute
estimateDuration_RoundsDown(wordCount) ==
    IF wordCount <= 0 THEN 0
    ELSE (wordCount * 2) \div WORDS_PER_MINUTE

\* estimateDuration: Math.ceil(wordCount / WORDS_PER_MINUTE * 2) half-minutes
estimateDuration(wordCount) ==
    IF wordCount <= 0 THEN 0
    ELSE Ceil(wordCount * 2, WORDS_PER_MINUTE)

(***************************************************************************)
(* Specification of estimateDuration: word counts from -MaxNegative to     *)
(* MaxWordCount.                                                           *)
(***************************************************************************)

MaxWordCount == 450

MaxNegative == 3

WordCounts == (0 - MaxNegative)..MaxWordCount

InitDuration ==
    /\ doc = <<>>
    /\ index = createEmptyIndex(0)
    /\ op \in {[NoOp EXCEPT !.count = w] : w \in WordCounts}
    /\ ui = NoUi
    /\ ServicesIdle

\* a call estimateDuration(wordCount)
EstimateDuration ==
    /\ op' = [NoOp EXCEPT !.name = "estimateDuration", !.count = op.count,
                          !.duration = estimateDuration(op.count)]
    /\ UNCHANGED <<doc, index>>
    /\ UNCHANGED ui
    /\ UNCHANGED services

NextDuration == EstimateDuration

SpecDuration == InitDuration /\ [][NextDuration]_vars

\* C16: estimateDuration is 0 for a word count <= 0 and otherwise the least
\* number of half-minutes that is at least wordCount / 200 minutes (h half
\* minutes are at least that when h * 100 >= wordCount); 200 words are 1
\* minute, 201 are 1.5, 50 and 7 are 0.5; a larger word count never has a
\* smaller duration.
C16_HalfMinuteCeiling ==
    op.name = "estimateDuration" =>
        /\ op.count <= 0 => op.duration = 0
        /\ op.count > 0 =>
               /\ op.duration * 100 >= op.count
               /\ (op.duration - 1) * 100 < op.count
        /\ op.count = 200 => op.duration = 2
        /\ op.count = 201 => op.duration = 3
        /\ op.count = 50 => op.duration = 1
        /\ op.count = 7 => op.duration = 1
        /\ \A w \in WordCounts : w >= op.count => estimateDuration(w) >= op.duration

\* the duration of 201 words: one minute and a half
C16_Witness ==
    /\ op.name = "estimateDuration"
    /\ op.count = 201
    /\ op.duration = 3

(***************************************************************************)
(* renumberScenes                                                          *)
(***************************************************************************)

\* [...scenes].sort((a, b) => a.line - b.line) : stable
RECURSIVE SortByLineAscending(_)
SortByLineAscending(scenes) ==
    IF Len(scenes) = 0 THEN <<>>
    ELSE LET m == Min({i \in 1..Len(scenes) :
                         \A j \in 1..Len(scenes) : scenes[i].line <= scenes[j].line})
         IN  <<scenes[m]>> \o SortByLineAscending(
                 SubSeq(scenes, 1, m - 1) \o SubSeq(scenes, m + 1, Len(scenes)))

\* this.index.scenes.filter(s => s.episode === episode && s.line >= fromLine)
ScenesFrom(scenes, fromLine, episode) ==
    SelectSeq(scenes, LAMBDA s : s.episode = episode /\ s.line >= fromLine)

\* this.index.scenes.filter(s => s.episode === episode && s.line < fromLine)
ScenesBefore(scenes, fromLine, episode) ==
    SelectSeq(scenes, LAMBDA s : s.episode = episode /\ s.line < fromLine)

\* expectedScene of renumberScenes
ExpectedScene(prevScenes) ==
    IF Len(prevScenes) > 0 THEN prevScenes[Len(prevScenes)].scene + 1 ELSE 1

\* the body of the loop of renumberScenes for one scene.  The number the
\* regular expression matched is a prefix of the line, so
\* lineContent.replace(oldNumber, newNumber) replaces that prefix.
RenumberTo(lines, scene, episode, newSceneNum) ==
    IF scene.scene = newSceneNum THEN lines
    ELSE IF ~SCENE_NUMBER_REGEX(getLine(lines, scene.line)).matched THEN lines
    ELSE replaceRange(lines,
             NumberToString(episode) \o <<"-">> \o NumberToString(newSceneNum)
                 \o SubSeq(getLine(lines, scene.line),
                           SCENE_NUMBER_REGEX(getLine(lines, scene.line)).len + 1,
                           Len(getLine(lines, scene.line))),
             [line |-> scene.line, ch |-> 0],
             [line |-> scene.line, ch |-> Len(getLine(lines, scene.line))])

\* the loop of renumberScenes, from the last scene (i = length - 1) to the
\* first (i = 0)
RECURSIVE RenumberLoop(_, _, _, _, _)
RenumberLoop(lines, sortedScenes, i, expectedScene, episode) ==
    IF i < 0 THEN lines
    ELSE RenumberLoop(RenumberTo(lines, sortedScenes[i + 1], episode,
                                 expectedScene + i),
                      sortedScenes, i - 1, expectedScene, episode)

\* renumberScenes(editor, fromLine, episode) with this.index.scenes = scenes:
\* the lines of the editor afterwards
renumberScenes(lines, scenes, fromLine, episode) ==
    IF Len(ScenesFrom(scenes, fromLine, episode)) = 0 THEN lines
    ELSE RenumberLoop(lines,
                      SortByLineAscending(ScenesFrom(scenes, fromLine, episode)),
                      Len(ScenesFrom(scenes, fromLine, episode)) - 1,
                      ExpectedScene(ScenesBefore(scenes, fromLine, episode)),
                      episode)

(***************************************************************************)
(* SpecRenumber: renumberScenes on documents of at most MaxRenumberLines   *)
(* lines, with the index updateSceneIndex keeps.                           *)
(***************************************************************************)

MaxRenumberLines == 3

RenumberLines ==
    {HeaderLine([episode |-> 1, scene |-> 1]),
     HeaderLine([episode |-> 1, scene |-> 3]),
     HeaderLine([episode |-> 2, scene |-> 1]),
     <<" ">> \o HeaderLine([episode |-> 1, scene |-> 2]),
     <<"x">>}

RenumberEpisodes == {1, 2}

InitRenumber ==
    /\ doc \in SeqsUpTo(RenumberLines, MaxRenumberLines)
    /\ index = createEmptyIndex(0)
    /\ op = NoOp
    /\ ui = NoUi
    /\ ServicesIdle

\* a call renumberScenes(editor, fromLine, episode)
RenumberScenes(fromLine, episode) ==
    /\ doc' = renumberScenes(doc, index.scenes, fromLine, episode)
    /\ op' = [NoOp EXCEPT !.name = "renumberScenes", !.cursorLine = fromLine,
                          !.number = [episode |-> episode,
                                      scene |-> ExpectedScene(ScenesBefore(
                                                    index.scenes, fromLine, episode))],
                          !.before = doc, !.result = index]
    /\ UNCHANGED index
    /\ UNCHANGED ui
    /\ UNCHANGED services

NextRenumber ==
    \/ UpdateSceneIndex
    \/ \E fromLine \in 0..Len(doc), episode \in RenumberEpisodes :
           RenumberScenes(fromLine, episode)

SpecRenumber == InitRenumber /\ [][NextRenumber]_vars

\* the positions in the scenes of the text before the call of the scenes
\* renumberScenes is asked to renumber, and of those before fromLine
Selected ==
    {i \in 1..Len(ScenesOf(op.before)) :
        /\ ScenesOf(op.before)[i].episode = op.number.episode
        /\ ScenesOf(op.before)[i].line >= op.cursorLine}

Earlier ==
    {i \in 1..Len(ScenesOf(op.before)) :
        /\ ScenesOf(op.before)[i].episode = op.number.episode
        /\ ScenesOf(op.before)[i].line < op.cursorLine}

\* the scene number the renumbering starts at
StartNumber ==
    IF Earlier = {} THEN 1 ELSE ScenesOf(op.before)[Max(Earlier)].scene + 1

\* C17: after renumberScenes(editor, fromLine, episode) on a document that
\* matches the index, the scenes of the episode at lines >= fromLine are
\* numbered consecutively in line order from 1 plus the number of the last
\* scene of the episode before fromLine (from 1 without one), every other
\* line is unchanged, and the document has as many lines as before.
C17_RenumberedFromLine ==
    (op.name = "renumberScenes" /\ op.result.scenes = ScenesOf(op.before)) =>
        /\ Len(doc) = Len(op.before)
        /\ \A i \in Selected :
               /\ parseSceneHeader(doc[ScenesOf(op.before)[i].line + 1]).matched
               /\ parseSceneHeader(doc[ScenesOf(op.before)[i].line + 1]).episode
                      = op.number.episode
               /\ parseSceneHeader(doc[ScenesOf(op.before)[i].line + 1]).scene
                      = StartNumber + Cardinality({j \in Selected : j < i})
        /\ \A k \in 1..Len(op.before) :
               (\A i \in Selected : ScenesOf(op.before)[i].line # k - 1)
                   => doc[k] = op.before[k]

(***************************************************************************)
(* insertNewEpisode                                                        *)
(***************************************************************************)

\* `# 第${newEpisode}集\n\n`
EpisodeMarker(newEpisode) ==
    <<"#", " ", "DI4">> \o NumberToString(newEpisode) \o <<"JI", "\n", "\n">>

\* '\n\n---\n\n'
EpisodeSeparator == <<"\n", "\n", "-", "-", "-", "\n", "\n">>

\* insertNewEpisode(editor) with this.index.episodeCount = episodeCount: the
\* lines of the editor afterwards and the cursor it sets.  lastLine is
\* editor.lastLine(), the text is inserted at the end of that line.
insertNewEpisode(lines, episodeCount) ==
    [lines |-> replaceRange(lines,
                   EpisodeSeparator \o EpisodeMarker(episodeCount + 1)
                       \o generateSceneContent(
                              [episode |-> episodeCount + 1, scene |-> 1],
                              DefaultTime, DefaultLocationType, DefaultLocation),
                   [line |-> Len(lines) - 1, ch |-> Len(lines[Len(lines)])],
                   [line |-> Len(lines) - 1, ch |-> Len(lines[Len(lines)])]),
     number |-> [episode |-> episodeCount + 1, scene |-> 1],
     cursor |-> [line |-> (Len(lines) - 1) + 6, ch |-> 2]]

(***************************************************************************)
(* SpecEpisode: handleNewEpisode on documents that start with at most      *)
(* MaxEpisodeLines lines, until the index counts MaxEpisodes episodes.     *)
(***************************************************************************)

MaxEpisodeLines == 2

MaxEpisodes == 3

EpisodeLines ==
    {HeaderLine([episode |-> 1, scene |-> 1]),
     HeaderLine([episode |-> 2, scene |-> 1]),
     <<"x">>, <<>>}

InitEpisode ==
    /\ doc \in SeqsUpTo(EpisodeLines, MaxEpisodeLines)
    /\ index = createEmptyIndex(0)
    /\ op = NoOp
    /\ ui = NoUi
    /\ ServicesIdle

\* handleNewEpisode (main.ts) with a markdown view open: updateSceneIndex,
\* then insertNewEpisode
HandleNewEpisode ==
    /\ \E idx \in {parseDocument(doc, FALSE, index, index, FreshRef).index} :
       \E r \in {insertNewEpisode(doc, idx.episodeCount)} :
           /\ idx.episodeCount < MaxEpisodes
           /\ index' = idx
           /\ doc' = r.lines
           /\ op' = [NoOp EXCEPT !.name = "handleNewEpisode", !.before = doc,
                                 !.number = r.number, !.cursor = r.cursor,
                                 !.result = idx, !.created = 1]
    /\ UNCHANGED ui
    /\ UNCHANGED services

NextEpisode ==
    \/ UpdateSceneIndex
    \/ HandleNewEpisode

SpecEpisode == InitEpisode /\ [][NextEpisode]_vars

\* the lines insertNewEpisode is to append for episode n: an empty line, the
\* separator, an empty line, the episode title, an empty line, the scene
\* header, the character line, and the empty line after its line break
AppendedLines(n) ==
    <<<<>>, <<"-", "-", "-">>, <<>>,
      <<"#", " ", "DI4">> \o NumberToString(n) \o <<"JI">>, <<>>,
      HeaderLine([episode |-> n, scene |-> 1]),
      <<"REN", "WU", "COLON">>, <<>>>>

\* C18: insertNewEpisode leaves the existing lines as they are and appends
\* after the last one a separator, an episode title and the scene header
\* (episodeCount + 1, 1) followed by the character line; the cursor is on that
\* character line.
C18_EpisodeAppended ==
    op.name = "handleNewEpisode" =>
        /\ SubSeq(doc, 1, Len(op.before)) = op.before
        /\ SubSeq(doc, Len(op.before) + 1, Len(doc))
               = AppendedLines(op.result.episodeCount + 1)
        /\ op.cursor.line + 1 \in 1..Len(doc)
        /\ doc[op.cursor.line + 1] = <<"REN", "WU", "COLON">>

(***************************************************************************)
(* The CodeMirror document: positions are offsets into the text of the     *)
(* document, its lines joined by line breaks.                              *)
(***************************************************************************)

\* the offset of the start of line k (k = 1 is the first line)
RECURSIVE LineFrom(_, _)
LineFrom(lines, k) ==
    IF k = 1 THEN 0 ELSE LineFrom(lines, k - 1) + Len(lines[k - 1]) + 1

\* state.doc.lineAt(pos): the line that holds pos, the end of a line included
lineAt(lines, pos) ==
    [from |-> LineFrom(lines, Max({k \in 1..Len(lines) : LineFrom(lines, k) <= pos})),
     text |-> lines[Max({k \in 1..Len(lines) : LineFrom(lines, k) <= pos})]]

\* view.dispatch({changes: {from, to, insert}}): the lines afterwards
Dispatch(lines, from, to, insert) ==
    SplitLines(SubSeq(JoinLines(lines), 1, from) \o insert
                   \o SubSeq(JoinLines(lines), to + 1, Len(JoinLines(lines))))

\* String.prototype.trimEnd
TrimEnd(s) ==
    IF \A j \in 1..Len(s) : s[j] \in WhiteSpace THEN <<>>
    ELSE SubSeq(s, 1, Max({j \in 1..Len(s) : s[j] \notin WhiteSpace}))

(***************************************************************************)
(* CharacterPopupExtension                                                 *)
(***************************************************************************)

\* the tests of shouldTriggerCharacterPopup on textBefore
TriggerOnTextBefore(textBefore) ==
    \/ Len(Trim(textBefore)) = 0
    \/ TrimEnd(textBefore) = <<"TRI">>
    \/ (Len(TrimEnd(textBefore)) > 0
           /\ TrimEnd(textBefore)[Len(TrimEnd(textBefore))] = "TRI")
    \/ (/\ Len(textBefore) >= 1
        /\ textBefore[1] = "TRI"
        /\ \A j \in 2..Len(textBefore) : textBefore[j] \in WhiteSpace)

\* shouldTriggerCharacterPopup(lineText, posInLine)
shouldTriggerCharacterPopup(lineText, posInLine) ==
    TriggerOnTextBefore(SubSeq(lineText, 1, Min({posInLine, Len(lineText)})))

\* characterPopup.show(view, triggerPos, characters): the popup afterwards; with
\* no characters the container holds the message that there are none
CharacterPopupShow(triggerPos, hasCharacters) ==
    [visible |-> TRUE, view |-> TRUE, triggerPos |-> triggerPos,
     empty |-> ~hasCharacters]

\* the body of iterChanges in update for one change that inserted the text
\* inserted at fromB; lines is update.state.doc.  pos = fromB + 1.
CharacterPopupOnChange(lines, popup, fromB, inserted, hasCharacters) ==
    IF inserted # <<"/">> THEN popup
    ELSE IF shouldTriggerCharacterPopup(lineAt(lines, fromB + 1).text,
                                        (fromB + 1) - lineAt(lines, fromB + 1).from)
    THEN CharacterPopupShow((fromB + 1) - 1, hasCharacters)
    ELSE popup

\* update(update) of the plugin after a change of the document
CharacterPopupUpdate(lines, popup, fromB, inserted, enabled, hasCharacters) ==
    IF ~enabled THEN popup
    ELSE CharacterPopupOnChange(lines, popup, fromB, inserted, hasCharacters)

(***************************************************************************)
(* SpecSlash: text is typed or pasted into a document that starts empty,   *)
(* up to MaxTypedLength characters.                                        *)
(***************************************************************************)

MaxTypedLength == 3

TypedTexts == {<<"/">>, <<"TRI">>, <<" ">>, <<"x">>, <<"\n">>, <<"/", "/">>}

InitSlash ==
    /\ doc = <<<<>>>>
    /\ index = createEmptyIndex(0)
    /\ op = NoOp
    /\ ui = NoUi
    /\ ServicesIdle

\* the user inserts the text inserted at the offset at; the editor changes the
\* document and the character popup plugin gets the update
TypeText(at, inserted, enabled, hasCharacters) ==
    /\ Len(JoinLines(doc)) + Len(inserted) <= MaxTypedLength
    /\ \E lines \in {Dispatch(doc, at, at, inserted)} :
           /\ doc' = lines
           /\ ui' = [ui EXCEPT !.cursor = at + Len(inserted),
                               !.character = CharacterPopupUpdate(lines,
                                   ui.character, at, inserted, enabled,
                                   hasCharacters)]
    /\ op' = [NoOp EXCEPT !.name = "typeText", !.at = at, !.inserted = inserted,
                          !.enabled = enabled, !.before = doc, !.uiBefore = ui]
    /\ UNCHANGED index
    /\ UNCHANGED services

NextSlash ==
    \E at \in 0..Len(JoinLines(doc)), inserted \in TypedTexts,
       enabled \in BOOLEAN, hasCharacters \in BOOLEAN :
        TypeText(at, inserted, enabled, hasCharacters)

SpecSlash == InitSlash /\ [][NextSlash]_vars

\* the text before the offset at on its line, in the document before the
\* last insertion
BeforeOnLine ==
    SubSeq(JoinLines(op.before),
           Max({0} \cup {j \in 1..op.at : JoinLines(op.before)[j] = "\n"}) + 1,
           op.at)

\* the text is only whitespace, or the action marker and then only spaces
LineStartOrMarker(s) ==
    \/ \A j \in 1..Len(s) : s[j] \in WhiteSpace
    \/ (Len(s) >= 1 /\ s[1] = "TRI" /\ \A j \in 2..Len(s) : s[j] = " ")

\* C19: with the popup enabled, a single / typed where the text before it on
\* its line is only whitespace, or the action marker and then only spaces,
\* shows the character popup at the offset of the /; typed after other text
\* it leaves the popup as it was.
C19_SlashShowsPopup ==
    (op.name = "typeText" /\ op.enabled /\ op.inserted = <<"/">>) =>
        IF LineStartOrMarker(BeforeOnLine)
        THEN ui.character.visible /\ ui.character.triggerPos = op.at
        ELSE ui.character = op.uiBefore.character

(***************************************************************************)
(* TabModifierExtension                                                    *)
(***************************************************************************)

\* MODIFIER_OPTIONS, by index 0..3
MODIFIER_OPTIONS ==
    <<[modifier |-> <<"COLON">>, needInput |-> FALSE],
      [modifier |-> <<"LP", "O", "S", "RP", "COLON">>, needInput |-> FALSE],
      [modifier |-> <<"LP", "V", "O", "RP", "COLON">>, needInput |-> FALSE],
      [modifier |-> <<"LP", "RP", "COLON">>, needInput |-> TRUE]>>

\* /[一-龥]/.test(c) || /[a-zA-Z]/.test(c) for one character
IsChineseOrLetter(c) ==
    \/ CharCode(c) \in 19968..40869
    \/ CharCode(c) \in 65..90
    \/ CharCode(c) \in 97..122

NoTrigger == [should |-> FALSE, pos |-> 0, replaceColon |-> FALSE]

\* shouldTriggerModifierPopup from textBefore on
TriggerModifierOn(textBefore, cursorPos) ==
    IF Len(textBefore) = 0 THEN NoTrigger
    ELSE IF StartsWith(Trim(textBefore), <<"TRI">>) THEN NoTrigger
    ELSE IF StartsWith(Trim(textBefore), <<"#">>) THEN NoTrigger
    ELSE IF SCENE_NUMBER_REGEX(Trim(textBefore)).matched THEN NoTrigger
    ELSE IF StartsWith(Trim(textBefore), <<"LB">>) THEN NoTrigger
    ELSE IF textBefore[Len(textBefore)] \in {"COLON", ":"}
    THEN IF Len(textBefore) >= 2
            /\ IsChineseOrLetter(textBefore[Len(textBefore) - 1])
         THEN [should |-> TRUE, pos |-> cursorPos - 1, replaceColon |-> TRUE]
         ELSE NoTrigger
    ELSE IF IsChineseOrLetter(textBefore[Len(textBefore)])
    THEN [should |-> TRUE, pos |-> cursorPos, replaceColon |-> FALSE]
    ELSE NoTrigger

\* shouldTriggerModifierPopup(view): textBefore is the text of the line of
\* the cursor up to the cursor
shouldTriggerModifierPopup(lines, cursorPos) ==
    TriggerModifierOn(SubSeq(lineAt(lines, cursorPos).text, 1,
                             cursorPos - lineAt(lines, cursorPos).from),
                      cursorPos)

\* TabModifierPopup.show
ModifierShow(triggerPos, replaceColon) ==
    [visible |-> TRUE, view |-> TRUE, triggerPos |-> triggerPos,
     replaceColon |-> replaceColon, selectedIndex |-> 0, inputMode |-> FALSE,
     inputValue |-> <<>>]

\* TabModifierPopup.hide
ModifierHide(m) ==
    [m EXCEPT !.visible = FALSE, !.inputMode = FALSE, !.inputValue = <<>>,
              !.view = FALSE, !.replaceColon = FALSE]

\* a step of the popup that changes neither the document nor the cursor
PopupOnly(lines, u, m) ==
    [lines |-> lines, ui |-> [u EXCEPT !.modifier = m], error |-> FALSE,
     inserted |-> <<>>]

\* insertModifier(modifier): the change is dispatched with the selection after
\* the modifier, hide() clears this.view, and this.view.focus() then focuses
\* the editor, or throws a TypeError when this.view is null
insertModifier(lines, u, modifier) ==
    IF ~u.modifier.view THEN PopupOnly(lines, u, u.modifier)
    ELSE [lines |-> Dispatch(lines, u.modifier.triggerPos,
                             IF u.modifier.replaceColon
                             THEN u.modifier.triggerPos + 1
                             ELSE u.modifier.triggerPos,
                             modifier),
          ui |-> [u EXCEPT !.cursor = u.modifier.triggerPos + Len(modifier),
                           !.modifier = ModifierHide(u.modifier),
                           !.focus = IF ModifierHide(u.modifier).view
                                     THEN TRUE ELSE u.focus],
          error |-> ~ModifierHide(u.modifier).view,
          inserted |-> modifier]

\* confirmInput: inputEl exists exactly in input mode
confirmInput(lines, u) ==
    IF ~u.modifier.inputMode \/ ~u.modifier.view THEN PopupOnly(lines, u, u.modifier)
    ELSE IF Len(Trim(u.modifier.inputValue)) > 0
    THEN insertModifier(lines, u,
             <<"LP">> \o Trim(u.modifier.inputValue) \o <<"RP", "COLON">>)
    ELSE insertModifier(lines, u, <<"COLON">>)

\* enterInputMode: the input element takes the focus
enterInputMode(lines, u) ==
    [lines |-> lines,
     ui |-> [u EXCEPT !.modifier.inputMode = TRUE, !.focus = FALSE],
     error |-> FALSE, inserted |-> <<>>]

\* selectCurrent
selectCurrent(lines, u) ==
    IF ~u.modifier.view THEN PopupOnly(lines, u, u.modifier)
    ELSE IF MODIFIER_OPTIONS[u.modifier.selectedIndex + 1].needInput
            /\ ~u.modifier.inputMode
    THEN enterInputMode(lines, u)
    ELSE IF u.modifier.inputMode THEN confirmInput(lines, u)
    ELSE insertModifier(lines, u,
                        MODIFIER_OPTIONS[u.modifier.selectedIndex + 1].modifier)

(***************************************************************************)
(* SpecModifier: the modifier popup on a few documents                     *)
(***************************************************************************)

MaxModifierLength == 5

ModifierDocs ==
    {<<<<"ZHANG", "SAN">>>>, <<<<"ZHANG", "SAN", "COLON">>>>, <<<<"x", ":">>>>,
     <<<<"TRI", "ZHANG">>>>, <<<<"COLON">>>>,
     <<<<"x">>, <<"ZHANG", "COLON", "HAO">>>>}

EmotionInputs == {<<>>, <<"XIAO">>, <<" ", "XIAO", " ">>, <<" ">>}

InitModifier ==
    /\ doc \in ModifierDocs
    /\ index = createEmptyIndex(0)
    /\ op = NoOp
    /\ ui = NoUi
    /\ ServicesIdle

\* what every step of the popup leaves in op
ModifierOp(name, r) ==
    [NoOp EXCEPT !.name = name, !.before = doc, !.uiBefore = ui,
                 !.inserted = r.inserted, !.error = r.error]

\* the user moves the cursor; with the popup open a click outside it hides it
MoveCursor(pos) ==
    /\ ui' = [ui EXCEPT !.cursor = pos, !.focus = TRUE,
                        !.modifier = IF ui.modifier.visible
                                     THEN ModifierHide(ui.modifier)
                                     ELSE ui.modifier]
    /\ op' = [NoOp EXCEPT !.name = "moveCursor", !.before = doc, !.uiBefore = ui]
    /\ UNCHANGED <<doc, index>>
    /\ UNCHANGED services

\* handleKeydown for the hotkey, while the document has at most
\* MaxModifierLength characters
PressHotkey(enabled) ==
    /\ Len(JoinLines(doc)) <= MaxModifierLength
    /\ ~ui.modifier.visible
    /\ ui.focus
    /\ ui' = IF enabled /\ shouldTriggerModifierPopup(doc, ui.cursor).should
             THEN [ui EXCEPT !.modifier = ModifierShow(
                       shouldTriggerModifierPopup(doc, ui.cursor).pos,
                       shouldTriggerModifierPopup(doc, ui.cursor).replaceColon)]
             ELSE ui
    /\ op' = [NoOp EXCEPT !.name = "hotkey", !.enabled = enabled,
                          !.before = doc, !.uiBefore = ui]
    /\ UNCHANGED <<doc, index>>
    /\ UNCHANGED services

\* keydownHandler for ArrowUp (delta = -1) and ArrowDown (delta = 1)
KeyArrow(delta) ==
    /\ ui.modifier.visible
    /\ ~ui.modifier.inputMode
    /\ ui' = [ui EXCEPT !.modifier.selectedIndex =
                 (ui.modifier.selectedIndex + delta + Len(MODIFIER_OPTIONS))
                     % Len(MODIFIER_OPTIONS)]
    /\ op' = [NoOp EXCEPT !.name = "arrow", !.before = doc, !.uiBefore = ui]
    /\ UNCHANGED <<doc, index>>
    /\ UNCHANGED services

\* the user types into the input of the input mode
TypeEmotion(value) ==
    /\ ui.modifier.visible
    /\ ui.modifier.inputMode
    /\ ui' = [ui EXCEPT !.modifier.inputValue = value]
    /\ op' = [NoOp EXCEPT !.name = "typeEmotion", !.before = doc, !.uiBefore = ui]
    /\ UNCHANGED <<doc, index>>
    /\ UNCHANGED services

\* keydownHandler for Enter
KeyEnter ==
    /\ ui.modifier.visible
    /\ \E r \in {IF ui.modifier.inputMode THEN confirmInput(doc, ui)
                 ELSE selectCurrent(doc, ui)} :
           /\ doc' = r.lines
           /\ ui' = r.ui
           /\ op' = ModifierOp("enter", r)
    /\ UNCHANGED index
    /\ UNCHANGED services

\* a click on the option with the given index
ClickOption(i) ==
    /\ ui.modifier.visible
    /\ ~ui.modifier.inputMode
    /\ \E r \in {selectCurrent(doc, [ui EXCEPT !.modifier.selectedIndex = i])} :
           /\ doc' = r.lines
           /\ ui' = r.ui
           /\ op' = ModifierOp("click", r)
    /\ UNCHANGED index
    /\ UNCHANGED services

\* keydownHandler for Escape
KeyEscape ==
    /\ ui.modifier.visible
    /\ ui' = [ui EXCEPT !.modifier = ModifierHide(ui.modifier)]
    /\ op' = [NoOp EXCEPT !.name = "escape", !.before = doc, !.uiBefore = ui]
    /\ UNCHANGED <<doc, index>>
    /\ UNCHANGED services

NextModifier ==
    \/ \E pos \in 0..Len(JoinLines(doc)) : MoveCursor(pos)
    \/ \E enabled \in BOOLEAN : PressHotkey(enabled)
    \/ \E delta \in {-1, 1} : KeyArrow(delta)
    \/ \E value \in EmotionInputs : TypeEmotion(value)
    \/ KeyEnter
    \/ \E i \in 0..(Len(MODIFIER_OPTIONS) - 1) : ClickOption(i)
    \/ KeyEscape

SpecModifier == InitModifier /\ [][NextModifier]_vars

\* the last step confirmed an option and inserted a modifier
Confirmed == op.name \in {"enter", "click"} /\ Len(op.inserted) > 0

\* C20: confirming an option inserts the modifier at the trigger position, in
\* place of the colon there exactly when replaceColon was set, hides the
\* popup and gives the focus back to the editor, without an error.
C20_InsertHideRefocus ==
    Confirmed =>
        /\ JoinLines(doc)
               = SubSeq(JoinLines(op.before), 1, op.uiBefore.modifier.triggerPos)
                   \o op.inserted
                   \o SubSeq(JoinLines(op.before),
                             op.uiBefore.modifier.triggerPos
                                 + (IF op.uiBefore.modifier.replaceColon THEN 2 ELSE 1),
                             Len(JoinLines(op.before)))
        /\ ~ui.modifier.visible
        /\ ui.focus
        /\ ~op.error

(***************************************************************************)
(* The event bus (services/EventBus.ts)                                    *)
(***************************************************************************)

\* the events of the model, two of the EventType union
EventTypes == {"scene:inserted", "scene:renumbered"}

\* The handlers that subscribers pass to the bus, named by what each does when
\* it is called: "notify" returns, "fail" throws, "cancel" unsubscribes
\* "notify" from 'scene:inserted' and returns, "again" emits 'scene:inserted'
\* with the data it received.
EventHandlers == {"notify", "fail", "cancel", "again"}

\* An entry of a Set of handlers is a function: a handler itself (wrapper = 0)
\* or the wrappedHandler that the wrapper-th call of once() created around it.
Entry(handler, wrapper) == [handler |-> handler, wrapper |-> wrapper]

\* Set.has
Has(set, entry) == \E i \in 1..Len(set) : set[i] = entry

\* Set.delete
Delete(set, entry) == SelectSeq(set, LAMBDA e : e # entry)

\* Map.get(event) || the empty Set
HandlersOf(handlers, event) ==
    IF event \in DOMAIN handlers THEN handlers[event] ELSE <<>>

\* Map.set(event, set)
MapSet(handlers, event, set) ==
    [e \in DOMAIN handlers \cup {event} |->
        IF e = event THEN set ELSE handlers[e]]

\* Map.delete(event)
MapDelete(handlers, event) ==
    [e \in DOMAIN handlers \ {event} |-> handlers[e]]

\* on(event, handler): the handlers after the call.  Set.add of an entry that
\* the Set holds changes nothing.
on(handlers, event, entry) ==
    IF Has(HandlersOf(handlers, event), entry)
    THEN handlers
    ELSE MapSet(handlers, event, Append(HandlersOf(handlers, event), entry))

\* off(event, handler): the handlers after the call
off(handlers, event, entry) ==
    IF event \notin DOMAIN handlers
    THEN handlers
    ELSE IF Delete(handlers[event], entry) = <<>>
         THEN MapDelete(handlers, event)
         ELSE MapSet(handlers, event, Delete(handlers[event], entry))

\* listenerCount(event)
listenerCount(handlers, event) == Len(HandlersOf(handlers, event))

\* A run of the bus: the bus, the calls that were made (each emit with its
\* number, each call of a Set entry with the number of the emit that made it,
\* each off of a handler),
\* the number of emit calls so far, and whether an exception is propagating.
Run(b) ==
    [handlers |-> b.handlers, calls |-> <<>>, emits |-> 0, threw |-> FALSE]

Called(r, emitNo, event, entry, data) ==
    [r EXCEPT !.calls = Append(@, [kind |-> "call", emit |-> emitNo,
                                   event |-> event, entry |-> entry,
                                   data |-> data])]

Removed(r, event, entry) ==
    [r EXCEPT !.handlers = off(@, event, entry),
              !.calls = Append(@, [kind |-> "off", emit |-> 0,
                                   event |-> event, entry |-> entry,
                                   data |-> ""])]

Emitted(r, event, data) ==
    [r EXCEPT !.emits = @ + 1,
              !.calls = Append(@, [kind |-> "emit", emit |-> r.emits + 1,
                                   event |-> event, entry |-> Entry("", 0),
                                   data |-> data])]

\* a catch block that lets the exception pass
Caught_Rethrows(r) == r

\* try { handler(data) } catch (error) { console.error(...) }
Caught(r) == [r EXCEPT !.threw = FALSE]

RECURSIVE emit(_, _, _)
RECURSIVE ForEachHandler(_, _, _, _, _)
RECURSIVE CallHandler(_, _, _)

\* handler(data) for a handler of EventHandlers
CallHandler(r, handler, data) ==
    CASE handler = "fail" -> [r EXCEPT !.threw = TRUE]
      [] handler = "cancel" -> Removed(r, "scene:inserted", Entry("notify", 0))
      [] handler = "again" -> emit(r, "scene:inserted", data)
      [] OTHER -> r

\* the call of a Set entry: the handler, or the wrappedHandler of once(),
\* which unsubscribes itself and then calls the handler
CallEntry(r, event, entry, data) ==
    IF entry.wrapper = 0
    THEN CallHandler(r, entry.handler, data)
    ELSE CallHandler(Removed(r, event, entry), entry.handler, data)

\* handlers.forEach(...) of emit number emitNo over the Set whose entries not
\* yet visited are todo: Set.forEach visits an entry when it is still in the
\* Set at its turn.  (No handler of the model adds to the Set.)
ForEachHandler(r, todo, emitNo, event, data) ==
    IF todo = <<>> \/ r.threw
    THEN r
    ELSE IF ~Has(HandlersOf(r.handlers, event), Head(todo))
         THEN ForEachHandler(r, Tail(todo), emitNo, event, data)
         ELSE ForEachHandler(
                  Caught(CallEntry(Called(r, emitNo, event, Head(todo), data),
                                   event, Head(todo), data)),
                  Tail(todo), emitNo, event, data)

\* emit(event, data)
emit(r, event, data) ==
    ForEachHandler(Emitted(r, event, data),
                   HandlersOf(r.handlers, event), r.emits + 1, event, data)

\* a once() that returns the unsubscriber of the handler it was given
once_UnsubscribesHandler(handlers, wrapper, event, handler) ==
    [handlers |-> on(handlers, event, Entry(handler, wrapper)),
     entry |-> Entry(handler, wrapper),
     unsubscribe |-> Entry(handler, 0)]

\* once(event, handler), wrapper being the number of the wrappedHandler it
\* creates: the handlers after the call, the entry that was added and the
\* entry that the returned function takes off (on() returns the unsubscriber
\* of what it was given, the wrappedHandler)
once(handlers, wrapper, event, handler) ==
    [handlers |-> on(handlers, event, Entry(handler, wrapper)),
     entry |-> Entry(handler, wrapper),
     unsubscribe |-> Entry(handler, wrapper)]

MaxWrappers == 1

\* the data of the events of the model
EventData == {"one", "two"}

NoEntry == Entry("", 0)

InitBus ==
    /\ doc = <<>>
    /\ index = createEmptyIndex(0)
    /\ op = NoOp
    /\ ui = NoUi
    /\ bus = NoBus
    /\ cache = NoCache
    /\ project = NoProject
    /\ state = NoState

BusOp(name, event, entry) ==
    [NoOp EXCEPT !.name = name, !.event = event, !.entry = entry]

\* bus.on(event, handler) by a subscriber
On(event, handler) ==
    /\ bus' = [bus EXCEPT !.handlers = on(@, event, Entry(handler, 0))]
    /\ op' = BusOp("on", event, Entry(handler, 0))
    /\ UNCHANGED <<doc, index, ui, cache, project, state>>

\* bus.once(event, handler) by a subscriber
Once(event, handler) ==
    /\ Len(bus.wrapped) < MaxWrappers
    /\ \E r \in {once(bus.handlers, Len(bus.wrapped) + 1, event, handler)} :
           /\ bus' = [handlers |-> r.handlers,
                      wrapped |-> Append(bus.wrapped,
                                         [event |-> event, entry |-> r.entry,
                                          unsubscribe |-> r.unsubscribe,
                                          calls |-> 0, emitted |-> FALSE,
                                          cancelled |-> FALSE])]
           /\ op' = BusOp("once", event, r.entry)
    /\ UNCHANGED <<doc, index, ui, cache, project, state>>

\* bus.off(event, handler) by a subscriber, also through the function that
\* on() returned
Off(event, handler) ==
    /\ bus' = [bus EXCEPT !.handlers = off(@, event, Entry(handler, 0))]
    /\ op' = BusOp("off", event, Entry(handler, 0))
    /\ UNCHANGED <<doc, index, ui, cache, project, state>>

\* the call of the function that the k-th once() returned
Unsubscribe(k) ==
    /\ bus' = [bus EXCEPT
                 !.handlers = off(@, bus.wrapped[k].event,
                                  bus.wrapped[k].unsubscribe),
                 !.wrapped[k].cancelled = @ \/ ~bus.wrapped[k].emitted]
    /\ op' = BusOp("unsubscribe", bus.wrapped[k].event, bus.wrapped[k].entry)
    /\ UNCHANGED <<doc, index, ui, cache, project, state>>

\* how often the run called the entry
CallsOf(calls, entry) ==
    Cardinality({i \in 1..Len(calls) :
                    calls[i].kind = "call" /\ calls[i].entry = entry})

\* the run made an emit call for the event
EmitsOf(calls, event) ==
    \E i \in 1..Len(calls) : calls[i].kind = "emit" /\ calls[i].event = event

\* bus.emit(event, data) by a service
Emit(event, data) ==
    /\ \E r \in {emit(Run(bus), event, data)} :
           /\ bus' = [handlers |-> r.handlers,
                      wrapped |->
                          [k \in 1..Len(bus.wrapped) |->
                              [bus.wrapped[k] EXCEPT
                                 !.calls = @ + CallsOf(r.calls,
                                                       bus.wrapped[k].entry),
                                 !.emitted =
                                     @ \/ EmitsOf(r.calls,
                                                  bus.wrapped[k].event)]]]
           /\ op' = [BusOp("emit", event, NoEntry) EXCEPT
                       !.data = data, !.calls = r.calls, !.error = r.threw,
                       !.busBefore = bus]
    /\ UNCHANGED <<doc, index, ui, cache, project, state>>

\* what the subscribers of the model subscribe with on() and take off with
\* off(), and what they subscribe with once()
Subscriptions ==
    {<<"scene:inserted", "notify">>, <<"scene:inserted", "fail">>,
     <<"scene:inserted", "cancel">>, <<"scene:renumbered", "notify">>}

OnceSubscriptions ==
    {<<"scene:inserted", "notify">>, <<"scene:inserted", "fail">>,
     <<"scene:inserted", "again">>, <<"scene:renumbered", "again">>}

NextBus ==
    \/ \E s \in Subscriptions : On(s[1], s[2])
    \/ \E s \in OnceSubscriptions : Once(s[1], s[2])
    \/ \E s \in Subscriptions : Off(s[1], s[2])
    \/ \E k \in 1..Len(bus.wrapped) : Unsubscribe(k)
    \/ \E event \in EventTypes, data \in EventData : Emit(event, data)

SpecBus == InitBus /\ [][NextBus]_vars

\* the Set of the emitted event when the last emit started
SubscribedAtStart == HandlersOf(op.busBefore.handlers, op.event)

\* the calls that the emit itself made (not the emits nested in a handler)
OwnCalls == SelectSeq(op.calls, LAMBDA c : c.kind = "call" /\ c.emit = 1)

\* how often the emit itself called the entry with the emitted data
OwnCallsOf(entry) ==
    Cardinality({i \in 1..Len(OwnCalls) :
                    OwnCalls[i].entry = entry /\ OwnCalls[i].data = op.data})

\* a handler took the entry off the emitted event during the emit
TakenOff(entry) ==
    \E i \in 1..Len(op.calls) :
        /\ op.calls[i].kind = "off"
        /\ op.calls[i].event = op.event
        /\ op.calls[i].entry = entry

RECURSIVE AfterOffs(_, _)
\* the handlers after the off calls that the handlers made during the emit
AfterOffs(handlers, calls) ==
    IF calls = <<>>
    THEN handlers
    ELSE AfterOffs(IF Head(calls).kind = "off"
                   THEN off(handlers, Head(calls).event, Head(calls).entry)
                   ELSE handlers,
                   Tail(calls))

\* the emit called nothing but the entries subscribed to its event at its
\* start, every time with its data
OnlySubscribedCalled ==
    \A i \in 1..Len(OwnCalls) :
        /\ OwnCalls[i].event = op.event
        /\ OwnCalls[i].data = op.data
        /\ Has(SubscribedAtStart, OwnCalls[i].entry)

NotCounted(entry, event) ==
    listenerCount(bus.handlers, event)
        = listenerCount(off(bus.handlers, event, entry), event)

CacheKeysOf(entries) == [i \in 1..Len(entries) |-> entries[i].key]

\* Map.has(key)
CacheHas(entries, key) == \E i \in 1..Len(entries) : entries[i].key = key

\* Map.get(key) of a key that the Map has
CacheValue(entries, key) ==
    entries[CHOOSE i \in 1..Len(entries) : entries[i].key = key].value

\* Map.delete(key)
CacheDelete(entries, key) == SelectSeq(entries, LAMBDA e : e.key # key)

\* a get that reads the value and leaves the entry where it is
LRUGet_ReadsOnly(entries, key) ==
    IF ~CacheHas(entries, key)
    THEN [found |-> FALSE, value |-> "", cache |-> entries]
    ELSE [found |-> TRUE, value |-> CacheValue(entries, key),
          cache |-> entries]

\* LRUCache.get(key): the value (found = FALSE for undefined) and the Map
\* after the call
LRUGet(entries, key) ==
    IF ~CacheHas(entries, key)
    THEN [found |-> FALSE, value |-> "", cache |-> entries]
    ELSE [found |-> TRUE, value |-> CacheValue(entries, key),
          cache |-> Append(CacheDelete(entries, key),
                           [key |-> key,
                            value |-> CacheValue(entries, key)])]

\* LRUCache.set(key, value): the Map after the call
LRUSet(entries, maxSize, key, value) ==
    Append(IF CacheHas(entries, key)
           THEN CacheDelete(entries, key)
           ELSE IF Len(entries) >= maxSize /\ entries # <<>>
                THEN Tail(entries)
                ELSE entries,
           [key |-> key, value |-> value])

\* the key becomes the most recently used one
Touch(recent, key) == Append(SelectSeq(recent, LAMBDA k : k # key), key)

MaxCacheSize == 2

\* the keys and the values of the model
CacheKeys == {"k1", "k2", "k3", "k4"}

CacheValues == {"v1", "v2"}

\* new StatsService(cacheSize), cacheSize >= 1
InitCache ==
    /\ doc = <<>>
    /\ index = createEmptyIndex(0)
    /\ op = NoOp
    /\ ui = NoUi
    /\ bus = NoBus
    /\ cache \in {[NoCache EXCEPT !.maxSize = n] : n \in 1..MaxCacheSize}
    /\ project = NoProject
    /\ state = NoState

CacheGet(key) ==
    /\ \E r \in {LRUGet(cache.cache, key)} :
           /\ cache' = [cache EXCEPT !.cache = r.cache,
                                     !.recent = IF r.found THEN Touch(@, key)
                                                ELSE @]
           /\ op' = [NoOp EXCEPT !.name = "get", !.key = key,
                                 !.found = r.found, !.value = r.value,
                                 !.cacheBefore = cache]
    /\ UNCHANGED <<doc, index, ui, bus, project, state>>

CacheSet(key, value) ==
    /\ cache' = [cache EXCEPT
                   !.cache = LRUSet(@, cache.maxSize, key, value),
                   !.recent = Touch(@, key)]
    /\ op' = [NoOp EXCEPT !.name = "set", !.key = key, !.value = value,
                          !.cacheBefore = cache]
    /\ UNCHANGED <<doc, index, ui, bus, project, state>>

CacheClear ==
    /\ cache' = [cache EXCEPT !.cache = <<>>, !.recent = <<>>]
    /\ op' = [NoOp EXCEPT !.name = "clear", !.cacheBefore = cache]
    /\ UNCHANGED <<doc, index, ui, bus, project, state>>

NextCache ==
    \/ \E key \in CacheKeys : CacheGet(key)
    \/ \E key \in CacheKeys, value \in CacheValues : CacheSet(key, value)
    \/ CacheClear

SpecCache == InitCache /\ [][NextCache]_vars

\* the last n elements of a sequence, all of it when it is shorter
LastOf(seq, n) ==
    IF Len(seq) <= n THEN seq ELSE SubSeq(seq, Len(seq) - n + 1, Len(seq))

KeySet(entries) == {entries[i].key : i \in 1..Len(entries)}

\* the key of cacheBefore whose last get-hit or set is the oldest
Oldest == op.cacheBefore.recent[
              CHOOSE i \in 1..Len(op.cacheBefore.recent) :
                  /\ CacheHas(op.cacheBefore.cache, op.cacheBefore.recent[i])
                  /\ \A j \in 1..(i - 1) :
                         ~CacheHas(op.cacheBefore.cache,
                                   op.cacheBefore.recent[j])]

\* C23: the cache never holds more than maxSize entries; it holds exactly the
\* keys of the last maxSize distinct keys that were set or hit by a get; a set
\* of a key that is present evicts nothing, a set of a new key on a cache that
\* is not full evicts nothing and a set of a new key on a full cache evicts
\* exactly the entry whose last get-hit or set is the oldest.
C23_LeastRecentlyUsedEvicted ==
    /\ Len(cache.cache) <= cache.maxSize
    /\ CacheKeysOf(cache.cache) = LastOf(cache.recent, cache.maxSize)
    /\ op.name = "set" =>
          IF CacheHas(op.cacheBefore.cache, op.key)
             \/ Len(op.cacheBefore.cache) < cache.maxSize
          THEN KeySet(cache.cache)
                   = KeySet(op.cacheBefore.cache) \cup {op.key}
          ELSE KeySet(cache.cache)
                   = (KeySet(op.cacheBefore.cache) \ {Oldest}) \cup {op.key}
    /\ op.name = "get" =>
          /\ op.found = CacheHas(op.cacheBefore.cache, op.key)
          /\ KeySet(cache.cache) = KeySet(op.cacheBefore.cache)

\* a set of a new key on a full cache of two entries, after other keys were
\* set, hit or evicted in another order than the Map had them in: the first
\* entry of the Map is evicted, the second stays
C23_Witness ==
    /\ op.name = "set"
    /\ cache.maxSize = 2
    /\ Len(op.cacheBefore.cache) = 2
    /\ ~CacheHas(op.cacheBefore.cache, op.key)
    /\ op.cacheBefore.recent # CacheKeysOf(op.cacheBefore.cache)
    /\ Len(op.cacheBefore.recent) >= 3
    /\ CacheHas(cache.cache, op.cacheBefore.cache[2].key)
    /\ ~CacheHas(cache.cache, op.cacheBefore.cache[1].key)

(***************************************************************************)
(* The recent locations of a project (ProjectService.addRecentLocation)    *)
(***************************************************************************)

MAX_RECENT_LOCATIONS == 10

\* Array.indexOf: 0 stands for -1
IndexOf(list, x) ==
    IF \E i \in 1..Len(list) : list[i] = x
    THEN CHOOSE i \in 1..Len(list) :
             list[i] = x /\ \A j \in 1..(i - 1) : list[j] # x
    ELSE 0

\* Array.splice(i, 1)
Splice(list, i) == SubSeq(list, 1, i - 1) \o SubSeq(list, i + 1, Len(list))

\* Array.slice(0, n)
Slice0(list, n) == SubSeq(list, 1, IF Len(list) < n THEN Len(list) ELSE n)

\* an addRecentLocation that does not look for the location in the list
addRecentLocation_NoSplice(active, recentLocations, location) ==
    IF ~active \/ Trim(location) = <<>>
    THEN recentLocations
    ELSE Slice0(<<location>> \o recentLocations, MAX_RECENT_LOCATIONS)

\* addRecentLocation(location): the list of the project after the call
addRecentLocation(active, recentLocations, location) ==
    IF ~active \/ Trim(location) = <<>>
    THEN recentLocations
    ELSE Slice0(<<location>>
                    \o (IF IndexOf(recentLocations, location) # 0
                        THEN Splice(recentLocations,
                                    IndexOf(recentLocations, location))
                        ELSE recentLocations),
                MAX_RECENT_LOCATIONS)

\* the locations that the settings file of the project may hold when it is
\* loaded: any number of the first of these
SavedLocations ==
    << <<"a">>, <<"b">>, <<"c">>, <<"d">>, <<"e">>, <<"f">>, <<"g">>, <<"h">>,
       <<"i">>, <<"j">> >>

\* the locations that are added: some of the saved ones, new ones, one with a
\* space before it, and blank ones
AddedLocations ==
    {<<"a">>, <<"e">>, <<"j">>, <<"x">>, <<"y">>, <<" ", "x">>, <<>>, <<" ">>,
     <<"IDSP", "\t">>}

MaxAdds == 3

InitRecent ==
    /\ doc = <<>>
    /\ index = createEmptyIndex(0)
    /\ op = NoOp
    /\ ui = NoUi
    /\ bus = NoBus
    /\ cache = NoCache
    /\ project \in {[NoProject EXCEPT
                       !.recentLocations = SubSeq(SavedLocations, 1, n)] :
                    n \in 0..Len(SavedLocations)}
    /\ state = NoState

\* projectService.addRecentLocation(location)
AddRecentLocation(location) ==
    /\ project.adds < MaxAdds
    /\ project' = [project EXCEPT
                     !.recentLocations =
                         addRecentLocation(project.active, @, location),
                     !.adds = @ + 1]
    /\ op' = [NoOp EXCEPT !.name = "addRecentLocation",
                          !.location = location, !.projectBefore = project]
    /\ UNCHANGED <<doc, index, ui, bus, cache, state>>

\* projectService.switchFile(filePath) to a file outside every project
\* (inProject = FALSE) or to a file of the project, whose settings are taken
\* from settingsCache
SwitchFile(inProject) ==
    /\ project' = [project EXCEPT !.active = inProject]
    /\ op' = [NoOp EXCEPT !.name = "switchFile", !.projectBefore = project]
    /\ UNCHANGED <<doc, index, ui, bus, cache, state>>

NextRecent ==
    \/ \E location \in AddedLocations : AddRecentLocation(location)
    \/ \E inProject \in BOOLEAN : SwitchFile(inProject)

SpecRecent == InitRecent /\ [][NextRecent]_vars

NoDuplicates(list) ==
    \A i, j \in 1..Len(list) : i # j => list[i] # list[j]

Without(list, x) == SelectSeq(list, LAMBDA y : y # x)

\* C24: the list of recent locations never has a duplicate nor more than
\* MAX_RECENT_LOCATIONS entries; addRecentLocation of a location that is not
\* blank, with an active project, puts it at index 0 and leaves the other
\* entries in their order (the last one falling off a full list);
\* addRecentLocation of a blank location or without an active project
\* changes nothing.
C24_RecentLocations ==
    /\ NoDuplicates(project.recentLocations)
    /\ Len(project.recentLocations) <= MAX_RECENT_LOCATIONS
    /\ op.name = "addRecentLocation" =>
          IF op.projectBefore.active /\ op.location \notin {<<>>, <<" ">>,
                                                         <<"IDSP", "\t">>}
          THEN /\ project.recentLocations[1] = op.location
               /\ Tail(project.recentLocations)
                      = Slice0(Without(op.projectBefore.recentLocations,
                                       op.location),
                               MAX_RECENT_LOCATIONS - 1)
          ELSE project.recentLocations = op.projectBefore.recentLocations

\* a new location added to a full list, and a listed one added again
C24_Witness ==
    /\ op.name = "addRecentLocation"
    /\ op.projectBefore.active
    /\ Len(op.projectBefore.recentLocations) = MAX_RECENT_LOCATIONS
    /\ project.recentLocations[1] = op.location
    /\ project.recentLocations[2] = <<"x">>
    /\ op.location = <<"e">>
    /\ project.recentLocations[MAX_RECENT_LOCATIONS] = <<"i">>

(***************************************************************************)
(* The listeners of the state manager (services/StateManager.ts)           *)
(***************************************************************************)

\* the listeners that the components of the model subscribe
StateListeners == {"panel", "statusBar"}

\* subscribe(key, listener): the manager after the call and the function that
\* is returned, which closes over the Set that the key had at the call
subscribe(s, key, listener) ==
    IF key \in DOMAIN s.listeners
    THEN [state |-> [s EXCEPT
                       !.sets[s.listeners[key]] =
                           IF Has(@, listener) THEN @ ELSE Append(@, listener)],
          closure |-> [key |-> key, set |-> s.listeners[key],
                       listener |-> listener]]
    ELSE [state |-> [s EXCEPT
                       !.sets = Append(@, <<listener>>),
                       !.listeners = MapSet(@, key, Len(s.sets) + 1)],
          closure |-> [key |-> key, set |-> Len(s.sets) + 1,
                       listener |-> listener]]

\* the function that subscribe() returned: listeners.delete(listener) on the
\* Set it closes over and, when that Set is empty, this.listeners.delete(key)
unsubscribe(s, closure) ==
    [s EXCEPT
       !.sets[closure.set] = Delete(@, closure.listener),
       !.listeners = IF Delete(s.sets[closure.set], closure.listener) = <<>>
                     THEN MapDelete(@, closure.key)
                     ELSE @]

\* clearListeners(): the Map is cleared, the Sets are not
clearListeners(s) == [s EXCEPT !.listeners = [k \in {} |-> 0]]

\* notifyListeners(key): the listeners that are called, in their order
notifyListeners(s, key) ==
    IF key \in DOMAIN s.listeners THEN s.sets[s.listeners[key]] ELSE <<>>

RECURSIVE NotifyKeys(_, _)
\* changedKeys.forEach(key => this.notifyListeners(key)) of setState: the
\* calls of listeners, each with its key
NotifyKeys(s, keys) ==
    IF keys = <<>>
    THEN <<>>
    ELSE [i \in 1..Len(notifyListeners(s, Head(keys))) |->
             [key |-> Head(keys),
              listener |-> notifyListeners(s, Head(keys))[i]]]
         \o NotifyKeys(s, Tail(keys))

MaxSets == 2

\* Object.keys(partial) of the setState calls of the model
Partials ==
    {<<"sceneIndex">>, <<"stats">>, <<"sceneIndex", "stats">>,
     <<"stats", "sceneIndex">>}

InitState ==
    /\ doc = <<>>
    /\ index = createEmptyIndex(0)
    /\ op = NoOp
    /\ ui = NoUi
    /\ bus = NoBus
    /\ cache = NoCache
    /\ project = NoProject
    /\ state = NoState

\* stateManager.subscribe(key, listener) by a component
Subscribe(key, listener) ==
    /\ key \in DOMAIN state.listeners \/ Len(state.sets) < MaxSets
    /\ \E r \in {subscribe(state, key, listener)} :
           state' = [r.state EXCEPT
                       !.closures = @ \cup {r.closure},
                       !.subscribed[key] = @ \cup {listener}]
    /\ op' = [NoOp EXCEPT !.name = "subscribe", !.key = key,
                          !.stateBefore = state]
    /\ UNCHANGED <<doc, index, ui, bus, cache, project>>

\* the call of a function that subscribe() returned, for the first time or
\* again
CallUnsubscribe(closure) ==
    /\ state' = [unsubscribe(state, closure) EXCEPT
                   !.subscribed[closure.key] = @ \ {closure.listener}]
    /\ op' = [NoOp EXCEPT !.name = "unsubscribe", !.key = closure.key,
                          !.stateBefore = state]
    /\ UNCHANGED <<doc, index, ui, bus, cache, project>>

\* stateManager.clearListeners()
ClearListeners ==
    /\ state' = [clearListeners(state) EXCEPT
                   !.subscribed = [k \in StateKeys |-> {}]]
    /\ op' = [NoOp EXCEPT !.name = "clearListeners", !.stateBefore = state]
    /\ UNCHANGED <<doc, index, ui, bus, cache, project>>

\* stateManager.setState(partial): the listeners of the keys of partial are
\* notified (no global listener is subscribed, and the bus has no handler of
\* 'settings:changed')
SetState(partial) ==
    /\ op' = [NoOp EXCEPT !.name = "setState", !.partial = partial,
                          !.notified = NotifyKeys(state, partial),
                          !.stateBefore = state]
    /\ UNCHANGED <<doc, index, ui, bus, cache, project, state>>

NextState ==
    \/ \E key \in StateKeys, listener \in StateListeners :
           Subscribe(key, listener)
    \/ \E closure \in state.closures : CallUnsubscribe(closure)
    \/ ClearListeners
    \/ \E partial \in Partials : SetState(partial)

SpecState == InitState /\ [][NextState]_vars

\* setState called the listener for the key
Notified(key, listener) ==
    \E i \in 1..Len(op.notified) :
        op.notified[i].key = key /\ op.notified[i].listener = listener

\* C25: a setState notifies, for every key of its partial, every listener
\* that was subscribed to the key and since neither unsubscribed by its own
\* function nor cleared, whatever functions returned by subscribe were called
\* for other listeners, however often and also after clearListeners.
C25_OthersStillNotified ==
    op.name = "setState" =>
        \A i \in 1..Len(op.partial) :
            \A listener \in state.subscribed[op.partial[i]] :
                Notified(op.partial[i], listener)

(***************************************************************************)
(* parseDocument with an index that the caller has kept                    *)
(***************************************************************************)

\* the texts of SpecIndex: no scene, one scene, the same scene after an
\* episode header
IndexTexts ==
    {<<>>,
     <<HeaderLine([episode |-> 1, scene |-> 1]), <<"JIA", "COLON", "HAO">>>>,
     <<HeaderLine([episode |-> 2, scene |-> 1])>>}

InitIndex ==
    /\ doc \in IndexTexts
    /\ index = createEmptyIndex(0)
    /\ op = NoOp
    /\ ui = NoUi
    /\ ServicesIdle

\* the index objects that the caller has kept from earlier parseDocument
\* calls: the last result and one before it
KeptIndexes == {op.result, op.prevResult} \ {NoIndex}

\* of the kept indexes, the one that stays second when result comes first
KeepSecond(result) ==
    IF op.result # result THEN op.result ELSE op.prevResult

\* a call parseDocument(content, previousIndex) with the content of the
\* editor and an index that the caller has kept
ParseDocumentWith(previousIndex) ==
    /\ \E r \in {parseDocument(doc, TRUE, previousIndex, index, FreshRef)} :
           /\ index' = r.index
           /\ op' = [NoOp EXCEPT !.name = "parseDocument", !.before = doc,
                                 !.usedPrev = TRUE, !.prev = previousIndex,
                                 !.result = r.result, !.created = r.created,
                                 !.prevResult = KeepSecond(r.result)]
    /\ UNCHANGED doc
    /\ UNCHANGED ui
    /\ UNCHANGED services

\* reset(), the caller keeping what it has
ResetIndex ==
    /\ index' = createEmptyIndex(FreshRef)
    /\ op' = [NoOp EXCEPT !.name = "reset", !.created = 1,
                          !.result = op.result, !.prevResult = op.prevResult]
    /\ UNCHANGED doc
    /\ UNCHANGED ui
    /\ UNCHANGED services

\* the text of the editor is replaced
SetText(lines) ==
    /\ doc' = lines
    /\ op' = [NoOp EXCEPT !.name = "setText",
                          !.result = op.result, !.prevResult = op.prevResult]
    /\ UNCHANGED index
    /\ UNCHANGED ui
    /\ UNCHANGED services

NextIndex ==
    \/ \E usePrevious \in BOOLEAN : ParseDocument(usePrevious)
    \/ \E previousIndex \in KeptIndexes : ParseDocumentWith(previousIndex)
    \/ ResetIndex
    \/ \E lines \in IndexTexts : SetText(lines)

SpecIndex == InitIndex /\ [][NextIndex]_vars

\* C26: after every call of parseDocument, getIndex() is the index object
\* that the call returned, also when it returned previousIndex because the
\* content hash was the same.
C26_GetIndexIsResult ==
    op.name = "parseDocument" => index = op.result

(***************************************************************************)
(* validateSceneHeader against parseSceneHeader                            *)
(***************************************************************************)

MaxAgreeParts == 3

\* the words of the lines of SpecAgree: a time, the location types, a
\* location, and a location type with a location written onto it
AgreeWords ==
    {<<"RI">>, <<"NEI">>, <<"WAI">>, <<"DI", "DIAN">>, <<"NEI", "DI">>}

\* what the lines begin with: nothing, a number, a number after a space, a
\* number with a third part, half a number
AgreeNumbers ==
    {<<>>, <<"3", "-", "2">>, <<" ", "1", "2", "-", "3">>,
     <<"3", "-", "2", "-", "1">>, <<"3", "-">>}

\* what stands between the number and the first word, and between two words
AgreeGaps == {<<>>, <<" ">>, <<"IDSP", "\t">>}

AgreeSeparators == {<<" ">>, <<" ", " ">>}

RECURSIVE JoinWordsWith(_, _)
JoinWordsWith(words, separator) ==
    IF Len(words) = 0 THEN <<>>
    ELSE IF Len(words) = 1 THEN words[1]
    ELSE words[1] \o separator \o JoinWordsWith(Tail(words), separator)

AgreeLines ==
    {number \o gap \o JoinWordsWith(words, separator) \o end :
        number \in AgreeNumbers, gap \in AgreeGaps,
        words \in {<<>>} \cup SeqsUpTo(AgreeWords, MaxAgreeParts),
        separator \in AgreeSeparators, end \in {<<>>, <<" ">>}}

InitAgree ==
    /\ doc \in {<<line>> : line \in AgreeLines}
    /\ index = createEmptyIndex(0)
    /\ op = NoOp
    /\ ui = NoUi
    /\ ServicesIdle

\* validateSceneHeader(line) and parseSceneHeader(line) with the line of the
\* editor
ValidateAndParse ==
    /\ \E r \in {validateSceneHeader(doc[1])} :
           op' = [NoOp EXCEPT !.name = "validateAndParse", !.line = doc[1],
                              !.valid = r.valid, !.errors = r.errors,
                              !.header = parseSceneHeader(doc[1])]
    /\ UNCHANGED <<doc, index>>
    /\ UNCHANGED ui
    /\ UNCHANGED services

NextAgree == ValidateAndParse

SpecAgree == InitAgree /\ [][NextAgree]_vars

\* C27: validateSceneHeader(line).valid is true exactly when
\* parseSceneHeader(line) is not null.
C27_ValidIffParsed ==
    op.name = "validateAndParse" => (op.valid <=> op.header.matched)

\* a header after a space, with two spaces between its words, which both
\* accept
C27_Witness ==
    /\ op.name = "validateAndParse"
    /\ op.valid
    /\ op.header.matched
    /\ op.line[1] = " "
    /\ \E i \in 1..(Len(op.line) - 1) : op.line[i] = " " /\ op.line[i + 1] = " "
    /\ op.header.location = <<"NEI", "DI">>

====
